---- MODULE Spec2Model ----
(***************************************************************************)
(* Model of the Aegis K8s simulator core:                                  *)
(*   backend/core/simulator/state.py      Node, Pod, HPA, NetworkPolicy    *)
(*   backend/core/simulator/scheduler.py  Scheduler (first-fit)            *)
(*   backend/core/simulator/chaos.py      ChaosManager (scheduled events)  *)
(*                                                                         *)
(* CPU and memory amounts and utilization samples are integers, so the     *)
(* arithmetic of the model is exact; the Python code uses floats for them. *)
(***************************************************************************)
EXTENDS Integers, Sequences, FiniteSets, TLC

VARIABLES
    nodeList,   \* Scheduler.nodes / ChaosManager.nodes: list order of the node ids
    nodes,      \* node id -> fields of the Node object
    podList,    \* Scheduler.pods / ChaosManager.pods: list order of the pod ids
    pods,       \* pod id -> fields of the Pod object
    policies,   \* policy id -> fields of the NetworkPolicy object
    eventSchedule, \* ChaosManager.event_schedule: the list of scheduled events
    hpa,        \* fields of the HPA object
    recorded,   \* every sample handed to HPA.record_utilization so far, in arrival order
    last,       \* the last call made on the core, its arguments and what it returned
    calls       \* how many calls have been made on the core

vars == <<nodeList, nodes, podList, pods, policies, eventSchedule, hpa, recorded,
          last, calls>>

(***************************************************************************)
(* Python values                                                           *)
(***************************************************************************)
\* Python's None (an absent assigned_node, a lookup that found nothing).
None == "None"

\* The code points of the identifiers used, as Python's str comparison reads them.
Codes ==
    ( "a"   :> <<97>>          @@ "b"   :> <<98>>
   @@ "n1"  :> <<110, 49>>     @@ "n10" :> <<110, 49, 48>> @@ "n2" :> <<110, 50>>
   @@ "p1"  :> <<112, 49>>     @@ "p10" :> <<112, 49, 48>> @@ "p2" :> <<112, 50>>
   @@ "ghost" :> <<103, 104, 111, 115, 116>> )

RECURSIVE SeqLess(_, _)
\* Python's s < t on two strings given as code point sequences.
SeqLess(s, t) ==
    IF t = <<>> THEN FALSE
    ELSE IF s = <<>> THEN TRUE
    ELSE IF Head(s) # Head(t) THEN Head(s) < Head(t)
    ELSE SeqLess(Tail(s), Tail(t))

\* a < b on two identifiers: the order sorted(..., key=lambda x: x.<id>) uses.
StrLess(a, b) == SeqLess(Codes[a], Codes[b])

RECURSIVE InsertSorted(_, _)
\* x placed behind every element that is not greater than it (a stable insertion).
InsertSorted(x, s) ==
    IF s = <<>> THEN <<x>>
    ELSE IF StrLess(x, Head(s)) THEN <<x>> \o s
    ELSE <<Head(s)>> \o InsertSorted(x, Tail(s))

\* The list left in the order it came in: the sort forgotten.
UnsortedIds(s) == s

RECURSIVE SortedIds(_)
\* sorted(list, key=id): ascending, stable.
SortedIds(s) ==
    IF s = <<>> THEN <<>>
    ELSE InsertSorted(s[Len(s)], SortedIds(SubSeq(s, 1, Len(s) - 1)))

\* dict.get(key, default) on an event.
Get(e, key, default) == IF key \in DOMAIN e THEN e[key] ELSE default

Min(a, b) == IF a <= b THEN a ELSE b
Max(a, b) == IF a >= b THEN a ELSE b

Range(s) == {s[i] : i \in DOMAIN s}

(***************************************************************************)
(* state.py: Node                                                          *)
(***************************************************************************)
\* Node.__init__: usage 0, not cordoned, no pods.
NewNode(alloc_cpu, alloc_mem, taints) ==
    [ allocatable_cpu   |-> alloc_cpu,
      allocatable_mem   |-> alloc_mem,
      current_cpu_usage |-> 0,
      current_mem_usage |-> 0,
      taints            |-> taints,
      cordoned          |-> FALSE,
      pods_running      |-> <<>> ]

available_cpu(node) == node.allocatable_cpu - node.current_cpu_usage
available_mem(node) == node.allocatable_mem - node.current_mem_usage

\* can_fit_pod without its CPU comparison.
can_fit_pod_NoCpuCheck(node, cpu_request, mem_request) ==
    IF node.cordoned THEN FALSE
    ELSE available_mem(node) >= mem_request

\* can_fit_pod without its cordon check.
can_fit_pod_IgnoresCordon(node, cpu_request, mem_request) ==
    /\ available_cpu(node) >= cpu_request
    /\ available_mem(node) >= mem_request

can_fit_pod(node, cpu_request, mem_request) ==
    IF node.cordoned THEN FALSE
    ELSE /\ available_cpu(node) >= cpu_request
         /\ available_mem(node) >= mem_request

\* The three assignments of Node.assign_pod after its check.
NodeAdd(node, pod_id, cpu_request, mem_request) ==
    [node EXCEPT !.pods_running      = Append(@, pod_id),
                 !.current_cpu_usage = @ + cpu_request,
                 !.current_mem_usage = @ + mem_request]

\* Node.assign_pod: [raised, node]; raised stands for the ValueError.
assign_pod(node, pod_id, cpu_request, mem_request) ==
    IF ~can_fit_pod(node, cpu_request, mem_request)
    THEN [raised |-> TRUE, node |-> node]
    ELSE [raised |-> FALSE, node |-> NodeAdd(node, pod_id, cpu_request, mem_request)]

RECURSIVE RemoveFirst(_, _)
\* list.remove(x): the first occurrence goes.
RemoveFirst(s, x) ==
    IF s = <<>> THEN <<>>
    ELSE IF Head(s) = x THEN Tail(s)
    ELSE <<Head(s)>> \o RemoveFirst(Tail(s), x)

\* remove_pod without the clamp at zero.
remove_pod_NoClamp(node, pod_id, cpu_request, mem_request) ==
    [node EXCEPT
        !.pods_running      = IF pod_id \in Range(@) THEN RemoveFirst(@, pod_id) ELSE @,
        !.current_cpu_usage = @ - cpu_request,
        !.current_mem_usage = @ - mem_request]

\* Node.remove_pod.
remove_pod(node, pod_id, cpu_request, mem_request) ==
    [node EXCEPT
        !.pods_running      = IF pod_id \in Range(@) THEN RemoveFirst(@, pod_id) ELSE @,
        !.current_cpu_usage = Max(0, @ - cpu_request),
        !.current_mem_usage = Max(0, @ - mem_request)]

(***************************************************************************)
(* state.py: Pod                                                           *)
(***************************************************************************)
Phases == {"pending", "running", "crash_loop", "succeeded"}

\* Pod.__init__.
NewPod(cpu_request, mem_request, cpu_limit, mem_limit, phase) ==
    [ cpu_request         |-> cpu_request,
      mem_request         |-> mem_request,
      cpu_limit           |-> cpu_limit,
      mem_limit           |-> mem_limit,
      simulated_cpu_usage |-> 0,
      simulated_mem_usage |-> 0,
      phase               |-> phase,
      restart_count       |-> 0,
      assigned_node       |-> None,
      last_probe_success  |-> TRUE ]

\* is_pending taking every pod that is not running for a pending one.
is_pending_NotRunning(pod) == pod.phase # "running"

is_pending(pod) == pod.phase = "pending"

\* crash that sends the pod back to the pending queue.
crash_BackToPending(pod) ==
    [pod EXCEPT !.phase = "pending", !.restart_count = @ + 1]

\* Pod.crash.
crash(pod) ==
    [pod EXCEPT !.phase = "crash_loop", !.restart_count = @ + 1]

\* start_running without the assignment of assigned_node.
start_running_NoNode(pod, node_id) ==
    [pod EXCEPT !.phase               = "running",
                !.simulated_cpu_usage = pod.cpu_request,
                !.simulated_mem_usage = pod.mem_request]

\* Pod.start_running.
start_running(pod, node_id) ==
    [pod EXCEPT !.phase               = "running",
                !.assigned_node       = node_id,
                !.simulated_cpu_usage = pod.cpu_request,
                !.simulated_mem_usage = pod.mem_request]

(***************************************************************************)
(* state.py: HPA.  A utilization sample is an integer; the average of the  *)
(* window is kept as the exact fraction num / den.                         *)
(***************************************************************************)
RECURSIVE SumSeq(_)
\* sum(...) of a list of numbers.
SumSeq(s) == IF s = <<>> THEN 0 ELSE Head(s) + SumSeq(Tail(s))

\* int(a / b) for b # 0: the quotient rounded toward zero.
Trunc(a, b) ==
    LET abs(x) == IF x < 0 THEN -x ELSE x
        q == abs(a) \div abs(b)
    IN  IF (a < 0) # (b < 0) THEN -q ELSE q

\* HPA.__init__.
NewHPA(target_utilization_percent, min_replicas, max_replicas, metric_window_size) ==
    [ target_utilization_percent |-> target_utilization_percent,
      min_replicas               |-> min_replicas,
      max_replicas               |-> max_replicas,
      metric_window              |-> <<>>,
      metric_window_size         |-> metric_window_size ]

\* record_utilization without the eviction.
record_utilization_NoEvict(h, cpu_utilization) ==
    [h EXCEPT !.metric_window = Append(@, cpu_utilization)]

\* HPA.record_utilization: append, then pop(0) if the window is over its size.
record_utilization(h, cpu_utilization) ==
    LET appended == Append(h.metric_window, cpu_utilization) IN
    [h EXCEPT !.metric_window = IF Len(appended) > h.metric_window_size
                                THEN Tail(appended)
                                ELSE appended]

\* HPA.average_utilization: 0.0 on an empty window, else sum / len.
average_utilization(h) ==
    IF h.metric_window = <<>>
    THEN [num |-> 0, den |-> 1]
    ELSE [num |-> SumSeq(h.metric_window), den |-> Len(h.metric_window)]

\* compute_desired_replicas without the test for a zero average or target: the
\* division by a zero target raises ZeroDivisionError.
compute_desired_replicas_NoZeroTest(h, current_replicas) ==
    LET avg_util == average_utilization(h) IN
    IF h.target_utilization_percent = 0
    THEN [raised |-> TRUE, result |-> None]
    ELSE [raised |-> FALSE,
          result |-> Max(h.min_replicas,
                         Min(Trunc(current_replicas * avg_util.num,
                                   avg_util.den * h.target_utilization_percent),
                             h.max_replicas))]

\* HPA.compute_desired_replicas.  Both divisions are made only past a test that
\* the divisor is not zero, so the call never raises.  desired is
\* int(current_replicas * (avg_util / target)), computed here without the
\* rounding of the float operations.
compute_desired_replicas(h, current_replicas) ==
    LET avg_util == average_utilization(h) IN
    IF avg_util.num = 0 \/ h.target_utilization_percent = 0
    THEN [raised |-> FALSE, result |-> current_replicas]
    ELSE LET desired == Trunc(current_replicas * avg_util.num,
                              avg_util.den * h.target_utilization_percent)
         IN  [raised |-> FALSE,
              result |-> Max(h.min_replicas, Min(desired, h.max_replicas))]

(***************************************************************************)
(* state.py: NetworkPolicy.  Labels and selectors are functions from keys  *)
(* to values; an ingress rule is a record that may have a from_selector.   *)
(***************************************************************************)
\* NetworkPolicy.__init__.
NewNetworkPolicy(allowed_ingress, enforced) ==
    [allowed_ingress |-> allowed_ingress, enforced |-> enforced]

\* NetworkPolicy.toggle_enforcement.
toggle_enforcement(policy) == [policy EXCEPT !.enforced = ~@]

\* is_ingress_allowed reading a key the source does not carry as a match.
is_ingress_allowed_MissingKeyMatches(policy, source_labels) ==
    IF ~policy.enforced THEN TRUE
    ELSE \E i \in DOMAIN policy.allowed_ingress :
            LET from_selector == Get(policy.allowed_ingress[i], "from_selector", <<>>) IN
            \A k \in DOMAIN from_selector :
                Get(source_labels, k, from_selector[k]) = from_selector[k]

\* NetworkPolicy.is_ingress_allowed.
is_ingress_allowed(policy, source_labels) ==
    IF ~policy.enforced THEN TRUE
    ELSE \E i \in DOMAIN policy.allowed_ingress :
            LET from_selector == Get(policy.allowed_ingress[i], "from_selector", <<>>) IN
            \A k \in DOMAIN from_selector :
                Get(source_labels, k, None) = from_selector[k]

(***************************************************************************)
(* scheduler.py: Scheduler.  A cluster c is [nodes, pods]; nl and pl are   *)
(* the scheduler's node list and pod list.                                 *)
(***************************************************************************)
\* _is_blocked_by_taints looking for NoSchedule only.
is_blocked_by_taints_NoScheduleOnly(node, pod) ==
    \E i \in DOMAIN node.taints :
        Get(node.taints[i], "effect", "") \in {"NoSchedule"}

\* Scheduler._is_blocked_by_taints: pods carry no tolerations.
is_blocked_by_taints(node, pod) ==
    \E i \in DOMAIN node.taints :
        Get(node.taints[i], "effect", "") \in {"NoSchedule", "NoExecute"}

RECURSIVE FirstFit_NoMemCheck(_, _, _)
\* The loop of select_node without the check of free memory.
FirstFit_NoMemCheck(ns, sorted_nodes, pod) ==
    IF sorted_nodes = <<>> THEN None
    ELSE LET node == ns[Head(sorted_nodes)] IN
        IF node.cordoned THEN FirstFit_NoMemCheck(ns, Tail(sorted_nodes), pod)
        ELSE IF available_cpu(node) < pod.cpu_request
            THEN FirstFit_NoMemCheck(ns, Tail(sorted_nodes), pod)
        ELSE IF is_blocked_by_taints(node, pod)
            THEN FirstFit_NoMemCheck(ns, Tail(sorted_nodes), pod)
        ELSE Head(sorted_nodes)

RECURSIVE FirstFit(_, _, _)
\* The for loop of select_node over the sorted node ids: four checks, first pass wins.
FirstFit(ns, sorted_nodes, pod) ==
    IF sorted_nodes = <<>> THEN None
    ELSE LET node == ns[Head(sorted_nodes)] IN
        IF node.cordoned THEN FirstFit(ns, Tail(sorted_nodes), pod)
        ELSE IF available_cpu(node) < pod.cpu_request
            THEN FirstFit(ns, Tail(sorted_nodes), pod)
        ELSE IF available_mem(node) < pod.mem_request
            THEN FirstFit(ns, Tail(sorted_nodes), pod)
        ELSE IF is_blocked_by_taints(node, pod)
            THEN FirstFit(ns, Tail(sorted_nodes), pod)
        ELSE Head(sorted_nodes)

\* Scheduler.select_node: the id of the first valid node, or None.
\* select_node walking the nodes in descending order of id.
select_node_Descending(ns, nl, pod) ==
    LET asc == SortedIds(nl) IN
    FirstFit(ns, [i \in DOMAIN asc |-> asc[Len(asc) + 1 - i]], pod)

select_node(ns, nl, pod) == FirstFit(ns, SortedIds(nl), pod)

\* assign_pod_to_node without its re-validation of can_fit_pod.
assign_pod_to_node_NoRevalidate(c, pod_id, node_id) ==
    LET pod == c.pods[pod_id] IN
    [raised |-> FALSE,
     c |-> [ pods  |-> [c.pods EXCEPT ![pod_id] =
                           [@ EXCEPT !.phase               = "running",
                                     !.assigned_node       = node_id,
                                     !.simulated_cpu_usage = pod.cpu_request,
                                     !.simulated_mem_usage = pod.mem_request]],
             nodes |-> [c.nodes EXCEPT ![node_id] =
                           [@ EXCEPT !.pods_running      = Append(@, pod_id),
                                     !.current_cpu_usage = @ + pod.cpu_request,
                                     !.current_mem_usage = @ + pod.mem_request]] ]]

\* assign_pod_to_node that leaves the phase of the pod as it was.
assign_pod_to_node_KeepsPhase(c, pod_id, node_id) ==
    LET pod  == c.pods[pod_id]
        node == c.nodes[node_id]
    IN  IF ~can_fit_pod(node, pod.cpu_request, pod.mem_request)
        THEN [raised |-> TRUE, c |-> c]
        ELSE [raised |-> FALSE,
              c |-> [ pods  |-> [c.pods EXCEPT ![pod_id] =
                                    [@ EXCEPT !.assigned_node       = node_id,
                                              !.simulated_cpu_usage = pod.cpu_request,
                                              !.simulated_mem_usage = pod.mem_request]],
                      nodes |-> [c.nodes EXCEPT ![node_id] =
                                    [@ EXCEPT !.pods_running      = Append(@, pod_id),
                                              !.current_cpu_usage = @ + pod.cpu_request,
                                              !.current_mem_usage = @ + pod.mem_request]] ]]

\* assign_pod_to_node charging the node with the pod's limits, not its requests.
assign_pod_to_node_ChargesLimits(c, pod_id, node_id) ==
    LET pod  == c.pods[pod_id]
        node == c.nodes[node_id]
    IN  IF ~can_fit_pod(node, pod.cpu_request, pod.mem_request)
        THEN [raised |-> TRUE, c |-> c]
        ELSE [raised |-> FALSE,
              c |-> [ pods  |-> [c.pods EXCEPT ![pod_id] =
                                    [@ EXCEPT !.phase               = "running",
                                              !.assigned_node       = node_id,
                                              !.simulated_cpu_usage = pod.cpu_request,
                                              !.simulated_mem_usage = pod.mem_request]],
                      nodes |-> [c.nodes EXCEPT ![node_id] =
                                    [@ EXCEPT !.pods_running      = Append(@, pod_id),
                                              !.current_cpu_usage = @ + pod.cpu_limit,
                                              !.current_mem_usage = @ + pod.mem_limit]] ]]

\* Scheduler.assign_pod_to_node: [raised, c]; raised stands for the ValueError.
assign_pod_to_node(c, pod_id, node_id) ==
    LET pod  == c.pods[pod_id]
        node == c.nodes[node_id]
    IN  IF ~can_fit_pod(node, pod.cpu_request, pod.mem_request)
        THEN [raised |-> TRUE, c |-> c]
        ELSE [raised |-> FALSE,
              c |-> [ pods  |-> [c.pods EXCEPT ![pod_id] =
                                    [@ EXCEPT !.phase               = "running",
                                              !.assigned_node       = node_id,
                                              !.simulated_cpu_usage = pod.cpu_request,
                                              !.simulated_mem_usage = pod.mem_request]],
                      nodes |-> [c.nodes EXCEPT ![node_id] =
                                    [@ EXCEPT !.pods_running      = Append(@, pod_id),
                                              !.current_cpu_usage = @ + pod.cpu_request,
                                              !.current_mem_usage = @ + pod.mem_request]] ]]

\* pending_pods left in list order: the sort by pod_id forgotten.
PendingPodsUnsorted(ps, pl) ==
    SelectSeq(pl, LAMBDA p : is_pending(ps[p]))

\* pending_pods of schedule_all_pending: the pending pods, sorted by pod_id.
PendingPods(ps, pl) ==
    SortedIds(SelectSeq(pl, LAMBDA p : is_pending(ps[p])))

RECURSIVE ScheduleLoop(_, _, _, _)
\* The for loop of schedule_all_pending.  acc is [scheduled_count, unschedulable_pods].
\* An error raised by assign_pod_to_node leaves the loop with the state as it is.
ScheduleLoop(c, nl, pending, acc) ==
    IF pending = <<>>
    THEN [c |-> c, raised |-> FALSE,
          result |-> [ scheduled_count     |-> acc.scheduled_count,
                       unschedulable_count |-> Len(acc.unschedulable_pods),
                       unschedulable_pods  |-> acc.unschedulable_pods ]]
    ELSE LET pod_id      == Head(pending)
             target_node == select_node(c.nodes, nl, c.pods[pod_id])
         IN  IF target_node = None
             THEN ScheduleLoop(c, nl, Tail(pending),
                      [acc EXCEPT !.unschedulable_pods = Append(@, pod_id)])
             ELSE LET a == assign_pod_to_node(c, pod_id, target_node) IN
                  IF a.raised
                  THEN [c |-> a.c, raised |-> TRUE, result |-> None]
                  ELSE ScheduleLoop(a.c, nl, Tail(pending),
                           [acc EXCEPT !.scheduled_count = @ + 1])

\* Scheduler.schedule_all_pending: [c, raised, result].
schedule_all_pending(c, nl, pl) ==
    ScheduleLoop(c, nl, PendingPods(c.pods, pl),
                 [scheduled_count |-> 0, unschedulable_pods |-> <<>>])

(***************************************************************************)
(* chaos.py: ChaosManager.  A world w is [nodes, pods, policies]; the      *)
(* manager finds entities by id in its lists nl and pl.  Each handler      *)
(* gives [w, result].                                                      *)
(***************************************************************************)
\* _find_pod_by_id / _find_node_by_id / _find_network_policy_by_id: the id, or None.
find_pod_by_id(pl, pod_id) ==
    IF pod_id = None THEN None
    ELSE IF pod_id \in Range(pl) THEN pod_id ELSE None

find_node_by_id(nl, node_id) ==
    IF node_id = None THEN None
    ELSE IF node_id \in Range(nl) THEN node_id ELSE None

find_network_policy_by_id(w, policy_id) ==
    IF policy_id = None THEN None
    ELSE IF policy_id \in DOMAIN w.policies THEN policy_id ELSE None

\* `if pod.assigned_node:` -- None and the empty string are false.
Truthy(x) == x # None /\ x # ""

\* _handle_pod_crash that also evicts the pod from its node and releases its
\* requests there.
handle_pod_crash_Releases(w, nl, pl, event) ==
    LET pod_id == Get(event, "pod_id", None)
        pod    == find_pod_by_id(pl, pod_id)
    IN  IF pod = None
        THEN [w |-> w, result |-> [status |-> "failed", reason |-> "not found"]]
        ELSE LET np == [crash(w.pods[pod]) EXCEPT !.assigned_node = None]
                 an == w.pods[pod].assigned_node
                 w1 == [w EXCEPT !.pods[pod] = np]
                 w2 == IF an \in DOMAIN w.nodes
                       THEN [w1 EXCEPT !.nodes[an] =
                                remove_pod(@, pod, np.cpu_request, np.mem_request)]
                       ELSE w1
             IN  [w |-> w2,
                  result |-> [ status |-> "executed", pod_id |-> pod_id,
                               new_phase |-> np.phase,
                               restart_count |-> np.restart_count ]]

\* _handle_pod_crash leaving alone a pod that is in crash_loop already.
handle_pod_crash_OnceOnly(w, nl, pl, event) ==
    LET pod_id == Get(event, "pod_id", None)
        pod    == find_pod_by_id(pl, pod_id)
    IN  IF pod = None
        THEN [w |-> w, result |-> [status |-> "failed", reason |-> "not found"]]
        ELSE LET np == IF w.pods[pod].phase = "crash_loop" THEN w.pods[pod]
                       ELSE crash(w.pods[pod])
             IN  [w |-> [w EXCEPT !.pods[pod] = np],
                  result |-> [ status |-> "executed", pod_id |-> pod_id,
                               new_phase |-> np.phase,
                               restart_count |-> np.restart_count ]]

handle_pod_crash(w, nl, pl, event) ==
    LET pod_id == Get(event, "pod_id", None)
        pod    == find_pod_by_id(pl, pod_id)
    IN  IF pod = None
        THEN [w |-> w, result |-> [status |-> "failed", reason |-> "not found"]]
        ELSE LET np == crash(w.pods[pod]) IN
             [w |-> [w EXCEPT !.pods[pod] = np],
              result |-> [ status |-> "executed", pod_id |-> pod_id,
                           new_phase |-> np.phase,
                           restart_count |-> np.restart_count ]]

handle_node_cordon(w, nl, pl, event) ==
    LET node_id == Get(event, "node_id", None)
        node    == find_node_by_id(nl, node_id)
    IN  IF node = None
        THEN [w |-> w, result |-> [status |-> "failed", reason |-> "not found"]]
        ELSE [w |-> [w EXCEPT !.nodes[node].cordoned = TRUE],
              result |-> [status |-> "executed", node_id |-> node_id, cordoned |-> TRUE]]

\* _handle_node_drain evicting the pods of the node: they go back to pending and
\* the node's running list and usage are cleared.
handle_node_drain_Evicts(w, nl, pl, event) ==
    LET node_id == Get(event, "node_id", None)
        node    == find_node_by_id(nl, node_id)
    IN  IF node = None
        THEN [w |-> w, result |-> [status |-> "failed", reason |-> "not found"]]
        ELSE [w |-> [w EXCEPT
                       !.nodes[node] = [@ EXCEPT !.cordoned = TRUE,
                                                 !.pods_running = <<>>,
                                                 !.current_cpu_usage = 0,
                                                 !.current_mem_usage = 0],
                       !.pods = [p \in DOMAIN w.pods |->
                                   IF w.pods[p].assigned_node = node
                                   THEN [w.pods[p] EXCEPT !.phase = "pending",
                                                          !.assigned_node = None]
                                   ELSE w.pods[p]]],
              result |-> [status |-> "executed", node_id |-> node_id, cordoned |-> TRUE]]

\* _handle_node_drain cordoning the first node of the list when its target is
\* not found.
handle_node_drain_FallsBack(w, nl, pl, event) ==
    LET node_id == Get(event, "node_id", None)
        node    == find_node_by_id(nl, node_id)
    IN  IF node = None
        THEN [w |-> [w EXCEPT !.nodes[nl[1]].cordoned = TRUE],
              result |-> [status |-> "failed", reason |-> "not found"]]
        ELSE [w |-> [w EXCEPT !.nodes[node].cordoned = TRUE],
              result |-> [status |-> "executed", node_id |-> node_id, cordoned |-> TRUE]]

handle_node_drain(w, nl, pl, event) ==
    LET node_id == Get(event, "node_id", None)
        node    == find_node_by_id(nl, node_id)
    IN  IF node = None
        THEN [w |-> w, result |-> [status |-> "failed", reason |-> "not found"]]
        ELSE [w |-> [w EXCEPT !.nodes[node].cordoned = TRUE],
              result |-> [status |-> "executed", node_id |-> node_id, cordoned |-> TRUE]]

RECURSIVE BurstLoop_NodeGetsPodDelta(_, _, _, _, _, _)
\* The loop of _handle_burst_traffic adding to the node what the pod's usage rose by
\* after the clamp.
BurstLoop_NodeGetsPodDelta(w, nl, pl, pod_ids, cpu_increase, affected_pods) ==
    IF pod_ids = <<>>
    THEN [w |-> w,
          result |-> [ status |-> "executed",
                       affected_count |-> Len(affected_pods),
                       affected_pods  |-> affected_pods ]]
    ELSE LET pod_id == Head(pod_ids)
             pod    == find_pod_by_id(pl, pod_id)
         IN  IF pod = None
             THEN BurstLoop_NodeGetsPodDelta(w, nl, pl, Tail(pod_ids), cpu_increase,
                                             affected_pods)
             ELSE LET old_cpu == w.pods[pod].simulated_cpu_usage
                      new_cpu == Min(old_cpu + cpu_increase, w.pods[pod].cpu_limit)
                      w1 == [w EXCEPT !.pods[pod].simulated_cpu_usage = new_cpu]
                      an == w.pods[pod].assigned_node
                      node == IF Truthy(an) THEN find_node_by_id(nl, an) ELSE None
                      w2 == IF node # None
                            THEN [w1 EXCEPT !.nodes[node].current_cpu_usage =
                                               @ + (new_cpu - old_cpu)]
                            ELSE w1
                  IN  BurstLoop_NodeGetsPodDelta(w2, nl, pl, Tail(pod_ids), cpu_increase,
                          Append(affected_pods,
                                 [ pod_id |-> pod_id, old_cpu_usage |-> old_cpu,
                                   new_cpu_usage |-> new_cpu,
                                   limit |-> w.pods[pod].cpu_limit ]))

RECURSIVE BurstLoop(_, _, _, _, _, _)
\* The for loop of _handle_burst_traffic over pod_ids.
BurstLoop(w, nl, pl, pod_ids, cpu_increase, affected_pods) ==
    IF pod_ids = <<>>
    THEN [w |-> w,
          result |-> [ status |-> "executed",
                       affected_count |-> Len(affected_pods),
                       affected_pods  |-> affected_pods ]]
    ELSE LET pod_id == Head(pod_ids)
             pod    == find_pod_by_id(pl, pod_id)
         IN  IF pod = None
             THEN BurstLoop(w, nl, pl, Tail(pod_ids), cpu_increase, affected_pods)
             ELSE LET old_cpu == w.pods[pod].simulated_cpu_usage
                      new_cpu == Min(old_cpu + cpu_increase, w.pods[pod].cpu_limit)
                      w1 == [w EXCEPT !.pods[pod].simulated_cpu_usage = new_cpu]
                      an == w.pods[pod].assigned_node
                      node == IF Truthy(an) THEN find_node_by_id(nl, an) ELSE None
                      w2 == IF node # None
                            THEN [w1 EXCEPT !.nodes[node].current_cpu_usage =
                                               @ + cpu_increase]
                            ELSE w1
                  IN  BurstLoop(w2, nl, pl, Tail(pod_ids), cpu_increase,
                          Append(affected_pods,
                                 [ pod_id |-> pod_id, old_cpu_usage |-> old_cpu,
                                   new_cpu_usage |-> new_cpu,
                                   limit |-> w.pods[pod].cpu_limit ]))

handle_burst_traffic(w, nl, pl, event) ==
    BurstLoop(w, nl, pl, Get(event, "pod_ids", <<>>), Get(event, "cpu_increase", 0), <<>>)

RECURSIVE OomLoop_CrashAtLimit(_, _, _, _, _, _)
\* The loop of _handle_oom_storm crashing a pod whose usage reaches its limit.
OomLoop_CrashAtLimit(w, nl, pl, pod_ids, memory_increase, affected_pods) ==
    IF pod_ids = <<>>
    THEN [w |-> w,
          result |-> [ status |-> "executed",
                       affected_count |-> Len(affected_pods),
                       affected_pods  |-> affected_pods ]]
    ELSE LET pod_id == Head(pod_ids)
             pod    == find_pod_by_id(pl, pod_id)
         IN  IF pod = None
             THEN OomLoop_CrashAtLimit(w, nl, pl, Tail(pod_ids), memory_increase, affected_pods)
             ELSE LET old_mem == w.pods[pod].simulated_mem_usage
                      new_mem == old_mem + memory_increase
                      crashed == new_mem >= w.pods[pod].mem_limit
                      rc == IF crashed THEN w.pods[pod].restart_count + 1
                            ELSE w.pods[pod].restart_count
                      w1 == [w EXCEPT
                               !.pods[pod].simulated_mem_usage = new_mem,
                               !.pods[pod].phase = IF crashed THEN "crash_loop" ELSE @,
                               !.pods[pod].restart_count = rc]
                      an == w.pods[pod].assigned_node
                      node == IF Truthy(an) THEN find_node_by_id(nl, an) ELSE None
                      w2 == IF node # None
                            THEN [w1 EXCEPT !.nodes[node].current_mem_usage =
                                               @ + memory_increase]
                            ELSE w1
                  IN  OomLoop_CrashAtLimit(w2, nl, pl, Tail(pod_ids), memory_increase,
                          Append(affected_pods,
                                 [ pod_id |-> pod_id, old_mem_usage |-> old_mem,
                                   new_mem_usage |-> new_mem,
                                   limit |-> w.pods[pod].mem_limit,
                                   crashed |-> crashed, restart_count |-> rc ]))

RECURSIVE OomLoop(_, _, _, _, _, _)
\* The for loop of _handle_oom_storm over pod_ids.
OomLoop(w, nl, pl, pod_ids, memory_increase, affected_pods) ==
    IF pod_ids = <<>>
    THEN [w |-> w,
          result |-> [ status |-> "executed",
                       affected_count |-> Len(affected_pods),
                       affected_pods  |-> affected_pods ]]
    ELSE LET pod_id == Head(pod_ids)
             pod    == find_pod_by_id(pl, pod_id)
         IN  IF pod = None
             THEN OomLoop(w, nl, pl, Tail(pod_ids), memory_increase, affected_pods)
             ELSE LET old_mem == w.pods[pod].simulated_mem_usage
                      new_mem == old_mem + memory_increase
                      crashed == new_mem > w.pods[pod].mem_limit
                      rc == IF crashed THEN w.pods[pod].restart_count + 1
                            ELSE w.pods[pod].restart_count
                      w1 == [w EXCEPT
                               !.pods[pod].simulated_mem_usage = new_mem,
                               !.pods[pod].phase = IF crashed THEN "crash_loop" ELSE @,
                               !.pods[pod].restart_count = rc]
                      an == w.pods[pod].assigned_node
                      node == IF Truthy(an) THEN find_node_by_id(nl, an) ELSE None
                      w2 == IF node # None
                            THEN [w1 EXCEPT !.nodes[node].current_mem_usage =
                                               @ + memory_increase]
                            ELSE w1
                  IN  OomLoop(w2, nl, pl, Tail(pod_ids), memory_increase,
                          Append(affected_pods,
                                 [ pod_id |-> pod_id, old_mem_usage |-> old_mem,
                                   new_mem_usage |-> new_mem,
                                   limit |-> w.pods[pod].mem_limit,
                                   crashed |-> crashed, restart_count |-> rc ]))

handle_oom_storm(w, nl, pl, event) ==
    OomLoop(w, nl, pl, Get(event, "pod_ids", <<>>), Get(event, "memory_increase", 0), <<>>)

handle_netpol_lockout(w, nl, pl, event) ==
    LET policy_id == Get(event, "policy_id", None)
        policy    == find_network_policy_by_id(w, policy_id)
    IN  IF policy = None
        THEN [w |-> w, result |-> [status |-> "failed", reason |-> "not found"]]
        ELSE [w |-> [w EXCEPT !.policies[policy].enforced = TRUE],
              result |-> [status |-> "executed", policy_id |-> policy_id,
                          enforced |-> TRUE]]

\* _handle_probe_failure without the increment of restart_count.
handle_probe_failure_NoCount(w, nl, pl, event) ==
    LET pod_id == Get(event, "pod_id", None)
        pod    == find_pod_by_id(pl, pod_id)
    IN  IF pod = None
        THEN [w |-> w, result |-> [status |-> "failed", reason |-> "not found"]]
        ELSE LET np == [w.pods[pod] EXCEPT !.last_probe_success = FALSE,
                                           !.phase = "crash_loop"]
             IN  [w |-> [w EXCEPT !.pods[pod] = np],
                  result |-> [ status |-> "executed", pod_id |-> pod_id,
                               last_probe_success |-> FALSE, phase |-> np.phase,
                               restart_count |-> np.restart_count ]]

handle_probe_failure(w, nl, pl, event) ==
    LET pod_id == Get(event, "pod_id", None)
        pod    == find_pod_by_id(pl, pod_id)
    IN  IF pod = None
        THEN [w |-> w, result |-> [status |-> "failed", reason |-> "not found"]]
        ELSE LET np == [w.pods[pod] EXCEPT !.last_probe_success = FALSE,
                                           !.phase = "crash_loop",
                                           !.restart_count = @ + 1]
             IN  [w |-> [w EXCEPT !.pods[pod] = np],
                  result |-> [ status |-> "executed", pod_id |-> pod_id,
                               last_probe_success |-> FALSE, phase |-> np.phase,
                               restart_count |-> np.restart_count ]]

\* The keys of ChaosManager._event_handlers.
EventTypes ==
    { "pod_crash", "node_cordon", "node_drain", "burst_traffic", "oom_storm",
      "netpol_lockout", "probe_failure" }

\* _dispatch_event with _handle_pod_crash as the handler of an unknown type.
dispatch_event_DefaultHandler(w, nl, pl, event) ==
    LET event_type == Get(event, "type", "") IN
    CASE event_type = "node_cordon"    -> handle_node_cordon(w, nl, pl, event)
      [] event_type = "node_drain"     -> handle_node_drain(w, nl, pl, event)
      [] event_type = "burst_traffic"  -> handle_burst_traffic(w, nl, pl, event)
      [] event_type = "oom_storm"      -> handle_oom_storm(w, nl, pl, event)
      [] event_type = "netpol_lockout" -> handle_netpol_lockout(w, nl, pl, event)
      [] event_type = "probe_failure"  -> handle_probe_failure(w, nl, pl, event)
      [] OTHER -> handle_pod_crash(w, nl, pl, event)

\* ChaosManager._dispatch_event: an unknown type fails and calls no handler.
dispatch_event(w, nl, pl, event) ==
    LET event_type == Get(event, "type", "") IN
    CASE event_type = "pod_crash"      -> handle_pod_crash(w, nl, pl, event)
      [] event_type = "node_cordon"    -> handle_node_cordon(w, nl, pl, event)
      [] event_type = "node_drain"     -> handle_node_drain(w, nl, pl, event)
      [] event_type = "burst_traffic"  -> handle_burst_traffic(w, nl, pl, event)
      [] event_type = "oom_storm"      -> handle_oom_storm(w, nl, pl, event)
      [] event_type = "netpol_lockout" -> handle_netpol_lockout(w, nl, pl, event)
      [] event_type = "probe_failure"  -> handle_probe_failure(w, nl, pl, event)
      [] OTHER -> [w |-> w,
                   result |-> [ status |-> "failed", reason |-> "unknown type",
                                event_type |-> event_type ]]

RECURSIVE ExecuteLoop_NoTickMatches(_, _, _, _, _, _)
\* The loop of execute_events_for_tick taking an event with no tick as due.
ExecuteLoop_NoTickMatches(w, nl, pl, schedule, current_tick, executed_events) ==
    IF schedule = <<>> THEN [w |-> w, executed_events |-> executed_events]
    ELSE LET event == Head(schedule) IN
         IF Get(event, "tick", current_tick) = current_tick
         THEN LET d == dispatch_event(w, nl, pl, event) IN
              ExecuteLoop_NoTickMatches(d.w, nl, pl, Tail(schedule), current_tick,
                          Append(executed_events, [event |-> event, result |-> d.result]))
         ELSE ExecuteLoop_NoTickMatches(w, nl, pl, Tail(schedule), current_tick,
                                        executed_events)

RECURSIVE ExecuteLoop(_, _, _, _, _, _)
\* The for loop of execute_events_for_tick over the schedule.
ExecuteLoop(w, nl, pl, schedule, current_tick, executed_events) ==
    IF schedule = <<>> THEN [w |-> w, executed_events |-> executed_events]
    ELSE LET event == Head(schedule) IN
         IF "tick" \in DOMAIN event /\ event.tick = current_tick
         THEN LET d == dispatch_event(w, nl, pl, event) IN
              ExecuteLoop(d.w, nl, pl, Tail(schedule), current_tick,
                          Append(executed_events, [event |-> event, result |-> d.result]))
         ELSE ExecuteLoop(w, nl, pl, Tail(schedule), current_tick, executed_events)

\* ChaosManager.execute_events_for_tick: [w, executed_events].
execute_events_for_tick(w, nl, pl, schedule, current_tick) ==
    ExecuteLoop(w, nl, pl, schedule, current_tick, <<>>)

(***************************************************************************)
(* The cluster the core is run on, and the bounds of the exploration       *)
(***************************************************************************)
\* The exploration follows every sequence of at most this many calls on the core.
MaxCalls == 3
\* The scheduler alone, started from every cluster of InitSched, is followed
\* through at most this many calls.
MaxSchedCalls == 2

\* The static event schedule handed to the ChaosManager: one event of each type,
\* bulk events naming a pod twice and a pod that does not exist, a batch in one
\* tick with an unknown type and missing targets, and an event with no tick.
EventSchedule ==
    << [tick |-> 0, type |-> "pod_crash", pod_id |-> "p1"],
       [tick |-> 1, type |-> "node_cordon", node_id |-> "n10"],
       [tick |-> 2, type |-> "node_drain", node_id |-> "n2"],
       [tick |-> 3, type |-> "burst_traffic", pod_ids |-> <<"p1", "ghost", "p2">>,
        cpu_increase |-> 1],
       [tick |-> 4, type |-> "oom_storm", pod_ids |-> <<"p1", "ghost", "p1">>,
        memory_increase |-> 1],
       [tick |-> 5, type |-> "oom_storm", pod_ids |-> <<"p2">>, memory_increase |-> 1],
       [tick |-> 6, type |-> "netpol_lockout", policy_id |-> "np1"],
       [tick |-> 7, type |-> "probe_failure", pod_id |-> "p2"],
       [tick |-> 8, type |-> "teleport_pod", pod_id |-> "p1"],
       [tick |-> 8, type |-> "pod_crash", pod_id |-> "ghost"],
       [tick |-> 8, type |-> "node_drain"],
       [type |-> "pod_crash", pod_id |-> "p1"],
       [tick |-> 8, type |-> "pod_crash", pod_id |-> "p2"] >>

\* The ticks the orchestrator may run: those of the schedule and one with no event.
Ticks == {e.tick : e \in {x \in Range(eventSchedule) : "tick" \in DOMAIN x}} \cup {9}

(***************************************************************************)
(* Operations of the core, as calls on the shared state                    *)
(***************************************************************************)
Cluster == [nodes |-> nodes, pods |-> pods]
World   == [nodes |-> nodes, pods |-> pods, policies |-> policies]

\* Scheduler.schedule_all_pending() called by the orchestrator.
ScheduleAllPending ==
    LET r == schedule_all_pending(Cluster, nodeList, podList) IN
    /\ nodes' = r.c.nodes
    /\ pods' = r.c.pods
    /\ last' = [op |-> "schedule_all_pending", raised |-> r.raised, result |-> r.result]
    /\ UNCHANGED <<nodeList, podList, policies, hpa, recorded, eventSchedule>>

\* Scheduler.select_node(pod) called on its own.
SelectNode ==
    \E p \in DOMAIN pods :
        /\ last' = [op |-> "select_node", pod_id |-> p,
                    result |-> select_node(nodes, nodeList, pods[p])]
        /\ UNCHANGED <<nodeList, nodes, podList, pods, policies, hpa, recorded, eventSchedule>>

\* Scheduler.assign_pod_to_node(pod, node) called on its own.
AssignPodToNode ==
    \E p \in DOMAIN pods, n \in DOMAIN nodes :
        LET r == assign_pod_to_node(Cluster, p, n) IN
        /\ nodes' = r.c.nodes
        /\ pods' = r.c.pods
        /\ last' = [op |-> "assign_pod_to_node", pod_id |-> p, node_id |-> n,
                    cpu_request |-> pods[p].cpu_request,
                    mem_request |-> pods[p].mem_request, raised |-> r.raised]
        /\ UNCHANGED <<nodeList, podList, policies, hpa, recorded, eventSchedule>>

\* Node.assign_pod(pod_id, cpu_request, mem_request) on node n.
CallAssignPod(n, pod_id, cpu_request, mem_request) ==
    LET r == assign_pod(nodes[n], pod_id, cpu_request, mem_request) IN
    /\ nodes' = [nodes EXCEPT ![n] = r.node]
    /\ last' = [op |-> "assign_pod", node_id |-> n, pod_id |-> pod_id,
                cpu_request |-> cpu_request, mem_request |-> mem_request,
                raised |-> r.raised]
    /\ UNCHANGED <<nodeList, podList, pods, policies, hpa, recorded, eventSchedule>>

\* Node.remove_pod(pod_id, cpu_request, mem_request) on node n.
CallRemovePod(n, pod_id, cpu_request, mem_request) ==
    /\ nodes' = [nodes EXCEPT ![n] = remove_pod(@, pod_id, cpu_request, mem_request)]
    /\ last' = [op |-> "remove_pod", node_id |-> n, pod_id |-> pod_id,
                cpu_request |-> cpu_request, mem_request |-> mem_request,
                raised |-> FALSE]
    /\ UNCHANGED <<nodeList, podList, pods, policies, hpa, recorded, eventSchedule>>

\* The controller placing and releasing a pod with the pod's own requests.
NodeAssignPod ==
    \E n \in DOMAIN nodes, p \in DOMAIN pods :
        CallAssignPod(n, p, pods[p].cpu_request, pods[p].mem_request)

NodeRemovePod ==
    \E n \in DOMAIN nodes, p \in DOMAIN pods :
        CallRemovePod(n, p, pods[p].cpu_request, pods[p].mem_request)

\* The amounts and pod ids a caller may hand to Node.assign_pod / Node.remove_pod:
\* nothing in the code restricts them.
Amounts == {-1, 0, 1, 2}
PodIdInputs == {"p1", "p2", "ghost"}

NodeAssignPodAny ==
    \E n \in DOMAIN nodes, pid \in PodIdInputs, c \in Amounts, m \in Amounts :
        CallAssignPod(n, pid, c, m)

NodeRemovePodAny ==
    \E n \in DOMAIN nodes, pid \in PodIdInputs, c \in Amounts, m \in Amounts :
        CallRemovePod(n, pid, c, m)

\* Pod.crash().
PodCrash ==
    \E p \in DOMAIN pods :
        /\ pods' = [pods EXCEPT ![p] = crash(@)]
        /\ last' = [op |-> "crash", pod_id |-> p]
        /\ UNCHANGED <<nodeList, nodes, podList, policies, hpa, recorded, eventSchedule>>

\* Pod.start_running(node_id).
PodStartRunning ==
    \E p \in DOMAIN pods, n \in DOMAIN nodes :
        /\ pods' = [pods EXCEPT ![p] = start_running(@, n)]
        /\ last' = [op |-> "start_running", pod_id |-> p, node_id |-> n]
        /\ UNCHANGED <<nodeList, nodes, podList, policies, hpa, recorded, eventSchedule>>

\* ChaosManager.execute_events_for_tick(t).
ExecuteEventsForTick ==
    \E t \in Ticks :
        LET r == execute_events_for_tick(World, nodeList, podList, eventSchedule, t) IN
        /\ nodes' = r.w.nodes
        /\ pods' = r.w.pods
        /\ policies' = r.w.policies
        /\ last' = [op |-> "execute_events_for_tick", tick |-> t,
                    executed_events |-> r.executed_events]
        /\ UNCHANGED <<nodeList, podList, hpa, recorded, eventSchedule>>

(***************************************************************************)
(* Spec: the whole core on a two-node, two-pod cluster.  Pods are built by *)
(* the Pod constructor with any of the four phases.                        *)
(***************************************************************************)
Init ==
    /\ nodeList = <<"n2", "n10">>
    /\ nodes = ( "n10" :> NewNode(2, 2, <<>>) @@ "n2" :> NewNode(3, 3, <<>>) )
    /\ podList = <<"p2", "p1">>
    /\ \E ph1 \in Phases, ph2 \in Phases :
          pods = ( "p1" :> NewPod(1, 1, 2, 2, ph1) @@ "p2" :> NewPod(2, 1, 2, 2, ph2) )
    /\ policies = ( "np1" :> NewNetworkPolicy(<<>>, FALSE) )
    /\ hpa = NewHPA(50, 1, 3, 5)
    /\ eventSchedule = EventSchedule
    /\ recorded = <<>>
    /\ last = [op |-> "init"]
    /\ calls = 0

\* One more call, within the bound of the exploration.
Call == calls < MaxCalls /\ calls' = calls + 1

Next ==
    \/ Call /\ ScheduleAllPending
    \/ Call /\ SelectNode
    \/ Call /\ AssignPodToNode
    \/ Call /\ NodeAssignPod
    \/ Call /\ NodeRemovePod
    \/ Call /\ PodCrash
    \/ Call /\ PodStartRunning
    \/ Call /\ ExecuteEventsForTick

Spec == Init /\ [][Next]_vars

(***************************************************************************)
(* SpecNode: one node starting with zero usage, under assign and remove    *)
(* calls with any pod id and any amounts, and placements of two pods, one  *)
(* of them with negative requests.                                         *)
(***************************************************************************)
InitNode ==
    /\ nodeList = <<"n1">>
    /\ nodes = ( "n1" :> NewNode(2, 2, <<>>) )
    /\ podList = <<"p2", "p1">>
    /\ pods = ( "p1" :> NewPod(1, 2, 2, 2, "pending")
             @@ "p2" :> NewPod(-1, -1, 2, 2, "pending") )
    /\ policies = ( "np1" :> NewNetworkPolicy(<<>>, FALSE) )
    /\ hpa = NewHPA(50, 1, 3, 5)
    /\ eventSchedule = EventSchedule
    /\ recorded = <<>>
    /\ last = [op |-> "init"]
    /\ calls = 0

NextNode ==
    \/ Call /\ NodeAssignPodAny
    \/ Call /\ NodeRemovePodAny
    \/ Call /\ AssignPodToNode

SpecNode == InitNode /\ [][NextNode]_vars

(***************************************************************************)
(* SpecSched: the scheduler alone, on two nodes in every condition the     *)
(* four checks of select_node distinguish, listed in either order, and     *)
(* three pods listed out of order.                                         *)
(***************************************************************************)
\* A node of allocatable (2, 2) in one of the conditions select_node tells apart.
NodeProfiles ==
    { NewNode(2, 2, <<>>),
      [NewNode(2, 2, <<>>) EXCEPT !.current_cpu_usage = 1],
      [NewNode(2, 2, <<>>) EXCEPT !.current_mem_usage = 2],
      [NewNode(2, 2, <<>>) EXCEPT !.cordoned = TRUE],
      NewNode(2, 2, <<[key |-> "k", value |-> "v", effect |-> "NoExecute"]>>),
      NewNode(2, 2, <<[key |-> "k", effect |-> "PreferNoSchedule"],
                      [key |-> "k", effect |-> "NoSchedule"]>>),
      NewNode(2, 2, <<[key |-> "k", effect |-> "PreferNoSchedule"]>>),
      NewNode(2, 2, <<[key |-> "k", value |-> "v"]>>) }

InitSched ==
    /\ nodeList \in {<<"n10", "n2">>, <<"n2", "n10">>, <<"a", "b">>, <<"b", "a">>}
    /\ nodes \in [Range(nodeList) -> NodeProfiles]
    /\ podList = <<"p2", "p10", "p1">>
    /\ \E ph10 \in {"pending", "crash_loop"}, ph2 \in {"pending", "succeeded"} :
          pods = ( "p1"  :> NewPod(1, 1, 2, 2, "pending")
                @@ "p10" :> NewPod(1, 1, 2, 2, ph10)
                @@ "p2"  :> NewPod(2, 1, 2, 2, ph2) )
    /\ policies = ( "np1" :> NewNetworkPolicy(<<>>, FALSE) )
    /\ hpa = NewHPA(50, 1, 3, 5)
    /\ eventSchedule = EventSchedule
    /\ recorded = <<>>
    /\ last = [op |-> "init"]
    /\ calls = 0

\* One more call on the scheduler, within the bound of the exploration.
CallSched == calls < MaxSchedCalls /\ calls' = calls + 1

NextSched ==
    \/ CallSched /\ ScheduleAllPending
    \/ CallSched /\ SelectNode
    \/ CallSched /\ AssignPodToNode

SpecSched == InitSched /\ [][NextSched]_vars

(***************************************************************************)
(* SpecHPA: one HPA built with every target, replica range and window size *)
(* below, under any sequence of record_utilization and                     *)
(* compute_desired_replicas calls.                                         *)
(***************************************************************************)
\* The HPA is followed through at most this many calls.
MaxHpaCalls == 4
\* The HPA is built with every metric_window_size from 0 up to this one.
MaxWindowSize == 2

\* Utilization samples: none, on target, four times the target.
Samples == {0, 50, 200}
\* Target utilizations, zero included.
Targets == {0, 50}
\* current_replicas handed in: negative, zero, inside and outside the ranges.
CurrentReplicas == {-1, 0, 1, 2, 5}
\* The replica ranges [min_replicas, max_replicas] the HPA is built with.
ReplicaRanges == {<<1, 2>>, <<1, 3>>, <<2, 2>>, <<2, 3>>}

\* HPA.record_utilization(x).
RecordUtilization ==
    \E x \in Samples :
        /\ hpa' = record_utilization(hpa, x)
        /\ recorded' = Append(recorded, x)
        /\ last' = [op |-> "record_utilization", cpu_utilization |-> x]
        /\ UNCHANGED <<nodeList, nodes, podList, pods, policies, eventSchedule>>

\* HPA.compute_desired_replicas(current): it assigns to no field of the HPA.
ComputeDesiredReplicas ==
    \E current \in CurrentReplicas :
        LET r == compute_desired_replicas(hpa, current) IN
        /\ last' = [op |-> "compute_desired_replicas", current_replicas |-> current,
                    raised |-> r.raised, result |-> r.result]
        /\ UNCHANGED <<nodeList, nodes, podList, pods, policies, hpa, recorded, eventSchedule>>

InitHPA ==
    /\ nodeList = <<"n2", "n10">>
    /\ nodes = ( "n10" :> NewNode(2, 2, <<>>) @@ "n2" :> NewNode(3, 3, <<>>) )
    /\ podList = <<"p2", "p1">>
    /\ pods = ( "p1" :> NewPod(1, 1, 2, 2, "pending")
             @@ "p2" :> NewPod(2, 1, 2, 2, "pending") )
    /\ policies = ( "np1" :> NewNetworkPolicy(<<>>, FALSE) )
    /\ \E t \in Targets, r \in ReplicaRanges, size \in 0..MaxWindowSize :
          hpa = NewHPA(t, r[1], r[2], size)
    /\ eventSchedule = EventSchedule
    /\ recorded = <<>>
    /\ last = [op |-> "init"]
    /\ calls = 0

\* One more call on the HPA, within the bound of the exploration.
CallHPA == calls < MaxHpaCalls /\ calls' = calls + 1

NextHPA ==
    \/ CallHPA /\ RecordUtilization
    \/ CallHPA /\ ComputeDesiredReplicas

SpecHPA == InitHPA /\ [][NextHPA]_vars

(***************************************************************************)
(* SpecNetpol: one NetworkPolicy built enforced or not, with every list of *)
(* ingress rules below, asked about every set of source labels.            *)
(***************************************************************************)
\* The policy is followed through at most this many calls.
MaxNetpolCalls == 2
\* The policy is built with every list of at most this many ingress rules.
MaxRules == 2

\* Ingress rules: an empty selector, one key, two keys, another key, and a rule
\* with no from_selector at all.
Rules ==
    { [from_selector |-> <<>>],
      [from_selector |-> ("app" :> "web")],
      [from_selector |-> ("app" :> "web" @@ "tier" :> "fe")],
      [from_selector |-> ("tier" :> "db")],
      [ports |-> <<80>>] }

\* Source labels: every assignment of a value to some of the keys.
LabelSets == UNION { [D -> {"web", "fe", "db"}] : D \in SUBSET {"app", "tier"} }

\* NetworkPolicy.is_ingress_allowed(source_labels): it assigns to no field.
IsIngressAllowed ==
    \E pid \in DOMAIN policies, source_labels \in LabelSets :
        /\ last' = [op |-> "is_ingress_allowed", policy_id |-> pid,
                    source_labels |-> source_labels,
                    result |-> is_ingress_allowed(policies[pid], source_labels)]
        /\ UNCHANGED <<nodeList, nodes, podList, pods, policies, hpa, recorded, eventSchedule>>

\* NetworkPolicy.toggle_enforcement().
ToggleEnforcement ==
    \E pid \in DOMAIN policies :
        /\ policies' = [policies EXCEPT ![pid] = toggle_enforcement(@)]
        /\ last' = [op |-> "toggle_enforcement", policy_id |-> pid]
        /\ UNCHANGED <<nodeList, nodes, podList, pods, hpa, recorded, eventSchedule>>

InitNetpol ==
    /\ nodeList = <<"n2", "n10">>
    /\ nodes = ( "n10" :> NewNode(2, 2, <<>>) @@ "n2" :> NewNode(3, 3, <<>>) )
    /\ podList = <<"p2", "p1">>
    /\ pods = ( "p1" :> NewPod(1, 1, 2, 2, "pending")
             @@ "p2" :> NewPod(2, 1, 2, 2, "pending") )
    /\ \E n \in 0..MaxRules, enforced \in BOOLEAN :
          \E allowed_ingress \in [1..n -> Rules] :
              policies = ( "np1" :> NewNetworkPolicy(allowed_ingress, enforced) )
    /\ hpa = NewHPA(50, 1, 3, 5)
    /\ eventSchedule = EventSchedule
    /\ recorded = <<>>
    /\ last = [op |-> "init"]
    /\ calls = 0

\* One more call on the policy, within the bound of the exploration.
CallNetpol == calls < MaxNetpolCalls /\ calls' = calls + 1

NextNetpol ==
    \/ CallNetpol /\ IsIngressAllowed
    \/ CallNetpol /\ ToggleEnforcement

SpecNetpol == InitNetpol /\ [][NextNetpol]_vars

(***************************************************************************)
(* SpecChaos: the ChaosManager built with every schedule of a few events   *)
(* out of EventPool, and with EventSchedule, on the cluster of Spec; the   *)
(* scheduler's pass is there to have running pods.                         *)
(***************************************************************************)
\* The ChaosManager and the scheduler are followed through at most this many calls.
MaxChaosCalls == 2
\* The ChaosManager is built with every schedule of at most this many events.
MaxEvents == 2

\* Events of tick 1 with an unknown type or none, events of tick 1 of each
\* single-target type whose target does not exist or is not named, and events
\* that find their target, at tick 1, at tick 2 and with no tick.
EventPool ==
    { [tick |-> 1, type |-> "teleport_pod", pod_id |-> "p1"],
      [tick |-> 1, pod_id |-> "p1"],
      [tick |-> 1, type |-> "pod_crash", pod_id |-> "ghost"],
      [tick |-> 1, type |-> "pod_crash"],
      [tick |-> 1, type |-> "probe_failure", pod_id |-> "ghost"],
      [tick |-> 1, type |-> "probe_failure"],
      [tick |-> 1, type |-> "node_cordon", node_id |-> "ghost"],
      [tick |-> 1, type |-> "node_cordon"],
      [tick |-> 1, type |-> "node_drain", node_id |-> "ghost"],
      [tick |-> 1, type |-> "node_drain"],
      [tick |-> 1, type |-> "netpol_lockout", policy_id |-> "ghost"],
      [tick |-> 1, type |-> "netpol_lockout"],
      [tick |-> 1, type |-> "pod_crash", pod_id |-> "p1"],
      [tick |-> 1, type |-> "node_cordon", node_id |-> "n2"],
      [tick |-> 1, type |-> "netpol_lockout", policy_id |-> "np1"],
      [tick |-> 2, type |-> "probe_failure", pod_id |-> "p2"],
      [type |-> "pod_crash", pod_id |-> "p2"] }

InitChaos ==
    /\ nodeList = <<"n2", "n10">>
    /\ nodes = ( "n10" :> NewNode(2, 2, <<>>) @@ "n2" :> NewNode(3, 3, <<>>) )
    /\ podList = <<"p2", "p1">>
    /\ pods = ( "p1" :> NewPod(1, 1, 2, 2, "pending")
             @@ "p2" :> NewPod(2, 1, 2, 2, "pending") )
    /\ policies = ( "np1" :> NewNetworkPolicy(<<>>, FALSE) )
    /\ \/ eventSchedule = EventSchedule
       \/ \E n \in 0..MaxEvents : eventSchedule \in [1..n -> EventPool]
    /\ hpa = NewHPA(50, 1, 3, 5)
    /\ recorded = <<>>
    /\ last = [op |-> "init"]
    /\ calls = 0

\* One more call, within the bound of the exploration.
CallChaos == calls < MaxChaosCalls /\ calls' = calls + 1

NextChaos ==
    \/ CallChaos /\ ExecuteEventsForTick
    \/ CallChaos /\ ScheduleAllPending

SpecChaos == InitChaos /\ [][NextChaos]_vars

(***************************************************************************)
(* SpecE2E: the end-to-end scenario.  Nodes n1 and n2 of 4 CPU, pod p1     *)
(* asking for 2, a node_drain of n1 scheduled at some tick, and a          *)
(* controller that adds pod p2 asking for 3; the calls come in any order.  *)
(* Memory is never the constraint.                                         *)
(***************************************************************************)
\* The scenario is followed through at most this many calls.
MaxE2ECalls == 4

\* The controller builds pod p2 (Pod.__init__, pending) and appends it to the pod
\* list the Scheduler and the ChaosManager share.
AddPod ==
    /\ "p2" \notin DOMAIN pods
    /\ \E mem_request \in {0, 1} :
          pods' = pods @@ ("p2" :> NewPod(3, mem_request, 4, 4, "pending"))
    /\ podList' = Append(podList, "p2")
    /\ last' = [op |-> "add_pod", pod_id |-> "p2"]
    /\ UNCHANGED <<nodeList, nodes, policies, hpa, recorded, eventSchedule>>

InitE2E ==
    /\ nodeList \in {<<"n1", "n2">>, <<"n2", "n1">>}
    /\ nodes = ( "n1" :> NewNode(4, 4, <<>>) @@ "n2" :> NewNode(4, 4, <<>>) )
    /\ podList = <<"p1">>
    /\ \E mem_request \in {0, 1} :
          pods = ( "p1" :> NewPod(2, mem_request, 4, 4, "pending") )
    /\ policies = ( "np1" :> NewNetworkPolicy(<<>>, FALSE) )
    /\ \E t \in {0, 3} :
          eventSchedule = << [tick |-> t, type |-> "node_drain", node_id |-> "n1"] >>
    /\ hpa = NewHPA(50, 1, 3, 5)
    /\ recorded = <<>>
    /\ last = [op |-> "init"]
    /\ calls = 0

\* One more call, within the bound of the exploration.
CallE2E == calls < MaxE2ECalls /\ calls' = calls + 1

NextE2E ==
    \/ CallE2E /\ ScheduleAllPending
    \/ CallE2E /\ ExecuteEventsForTick
    \/ CallE2E /\ AddPod

SpecE2E == InitE2E /\ [][NextE2E]_vars

(***************************************************************************)
(* SpecStorm: the ChaosManager built with one burst_traffic or oom_storm   *)
(* event, of every amount and every list of pod ids below, on two nodes    *)
(* and two pods that a scheduling pass may have placed.  p1 asks for 90 of *)
(* memory under a limit of 100; p2 asks for all of its limit.              *)
(***************************************************************************)
\* The storm is followed through at most this many calls.
MaxStormCalls == 3
\* The event lists at most this many pod ids.
MaxPodIds == 2

\* The amounts of a burst_traffic (CPU) and of an oom_storm (memory).
CpuIncreases == {-1, 0, 1, 2}
MemoryIncreases == {-10, 0, 10, 20}

\* The lists of pod ids of an event: ids that exist, one that does not, repeats.
PodIdLists == UNION { [1..n -> {"p1", "p2", "ghost"}] : n \in 0..MaxPodIds }

\* One event at tick 1: a storm with its amount and pod ids, or one that leaves
\* the amount or the pod ids out.
StormEvents ==
    { [tick |-> 1, type |-> "burst_traffic", pod_ids |-> ids, cpu_increase |-> a] :
          ids \in PodIdLists, a \in CpuIncreases }
    \cup
    { [tick |-> 1, type |-> "oom_storm", pod_ids |-> ids, memory_increase |-> m] :
          ids \in PodIdLists, m \in MemoryIncreases }
    \cup
    { [tick |-> 1, type |-> "burst_traffic", pod_ids |-> <<"p1">>],
      [tick |-> 1, type |-> "burst_traffic", cpu_increase |-> 1],
      [tick |-> 1, type |-> "oom_storm", pod_ids |-> <<"p1">>],
      [tick |-> 1, type |-> "oom_storm", memory_increase |-> 10] }

InitStorm ==
    /\ nodeList = <<"n2", "n10">>
    /\ nodes = ( "n10" :> NewNode(2, 100, <<>>) @@ "n2" :> NewNode(3, 200, <<>>) )
    /\ podList = <<"p2", "p1">>
    /\ pods = ( "p1" :> NewPod(1, 90, 2, 100, "pending")
             @@ "p2" :> NewPod(2, 100, 2, 100, "pending") )
    /\ policies = ( "np1" :> NewNetworkPolicy(<<>>, FALSE) )
    /\ \E e \in StormEvents : eventSchedule = <<e>>
    /\ hpa = NewHPA(50, 1, 3, 5)
    /\ recorded = <<>>
    /\ last = [op |-> "init"]
    /\ calls = 0

\* One more call, within the bound of the exploration.
CallStorm == calls < MaxStormCalls /\ calls' = calls + 1

NextStorm ==
    \/ CallStorm /\ ScheduleAllPending
    \/ CallStorm /\ ExecuteEventsForTick

SpecStorm == InitStorm /\ [][NextStorm]_vars

(***************************************************************************)
(* SpecRerun: the ChaosManager with EventSchedule on the cluster of Spec,  *)
(* its pods pending; the engine may run a tick once, or twice in a row.    *)
(***************************************************************************)
\* The engine is followed through at most this many calls.
MaxRerunCalls == 2

\* ChaosManager.execute_events_for_tick(t) called twice in a row with the same t;
\* `previous` and `between` are what the first call returned and left.
ExecuteEventsForTickTwice ==
    \E t \in Ticks :
        LET r1 == execute_events_for_tick(World, nodeList, podList, eventSchedule, t)
            r2 == execute_events_for_tick(r1.w, nodeList, podList, eventSchedule, t)
        IN  /\ nodes' = r2.w.nodes
            /\ pods' = r2.w.pods
            /\ policies' = r2.w.policies
            /\ last' = [op |-> "execute_events_for_tick", tick |-> t,
                        executed_events |-> r2.executed_events,
                        previous |-> r1.executed_events, between |-> r1.w]
            /\ UNCHANGED <<nodeList, podList, hpa, recorded, eventSchedule>>

InitRerun ==
    /\ nodeList = <<"n2", "n10">>
    /\ nodes = ( "n10" :> NewNode(2, 2, <<>>) @@ "n2" :> NewNode(3, 3, <<>>) )
    /\ podList = <<"p2", "p1">>
    /\ pods = ( "p1" :> NewPod(1, 1, 2, 2, "pending")
             @@ "p2" :> NewPod(2, 1, 2, 2, "pending") )
    /\ policies = ( "np1" :> NewNetworkPolicy(<<>>, FALSE) )
    /\ eventSchedule = EventSchedule
    /\ hpa = NewHPA(50, 1, 3, 5)
    /\ recorded = <<>>
    /\ last = [op |-> "init"]
    /\ calls = 0

\* One more call (or pair of calls), within the bound of the exploration.
CallRerun == calls < MaxRerunCalls /\ calls' = calls + 1

NextRerun ==
    \/ CallRerun /\ ScheduleAllPending
    \/ CallRerun /\ ExecuteEventsForTick
    \/ CallRerun /\ ExecuteEventsForTickTwice

SpecRerun == InitRerun /\ [][NextRerun]_vars

(***************************************************************************)
(* SpecPass: scheduling passes alone, started from any state of two nodes  *)
(* (the conditions of NodeProfiles, and usage above allocatable as a storm *)
(* leaves it) and three pods, one of them with any sign of CPU request.    *)
(***************************************************************************)
\* The scheduler is followed through at most this many passes.
MaxPasses == 2

\* Node conditions at the start of a pass.
PassProfiles ==
    NodeProfiles
    \cup { [NewNode(2, 2, <<>>) EXCEPT !.current_cpu_usage = 3],
           [NewNode(2, 2, <<>>) EXCEPT !.current_mem_usage = 3,
                                       !.pods_running = <<"ghost">>] }

InitPass ==
    /\ nodeList = <<"n2", "n10">>
    /\ nodes \in [{"n10", "n2"} -> PassProfiles]
    /\ podList = <<"p2", "p10", "p1">>
    /\ \E cpu1 \in {-1, 0, 1}, ph2 \in {"pending", "crash_loop"} :
          pods = ( "p1"  :> NewPod(cpu1, 1, 2, 2, "pending")
                @@ "p10" :> NewPod(1, 1, 2, 2, "pending")
                @@ "p2"  :> NewPod(2, 0, 2, 2, ph2) )
    /\ policies = ( "np1" :> NewNetworkPolicy(<<>>, FALSE) )
    /\ eventSchedule = EventSchedule
    /\ hpa = NewHPA(50, 1, 3, 5)
    /\ recorded = <<>>
    /\ last = [op |-> "init"]
    /\ calls = 0

\* One more pass, within the bound of the exploration.
CallPass == calls < MaxPasses /\ calls' = calls + 1

NextPass ==
    \/ CallPass /\ ScheduleAllPending
    \/ CallPass /\ SelectNode

SpecPass == InitPass /\ [][NextPass]_vars

(***************************************************************************)
(* SpecLife: a cluster from its construction on, all pods pending and no   *)
(* node running anything, through any interleaving of scheduling passes    *)
(* and the ticks of the chaos schedule.                                    *)
(***************************************************************************)
\* The cluster is followed through at most this many calls.
MaxLifeCalls == 4

InitLife ==
    /\ nodeList = <<"n2", "n10">>
    /\ nodes = ( "n10" :> NewNode(2, 2, <<>>) @@ "n2" :> NewNode(3, 3, <<>>) )
    /\ podList = <<"p2", "p1">>
    /\ pods = ( "p1" :> NewPod(1, 1, 2, 2, "pending")
             @@ "p2" :> NewPod(2, 1, 2, 2, "pending") )
    /\ policies = ( "np1" :> NewNetworkPolicy(<<>>, FALSE) )
    /\ eventSchedule = EventSchedule
    /\ hpa = NewHPA(50, 1, 3, 5)
    /\ recorded = <<>>
    /\ last = [op |-> "init"]
    /\ calls = 0

\* One more call, within the bound of the exploration.
CallLife == calls < MaxLifeCalls /\ calls' = calls + 1

NextLife ==
    \/ CallLife /\ ScheduleAllPending
    \/ CallLife /\ ExecuteEventsForTick

SpecLife == InitLife /\ [][NextLife]_vars

(***************************************************************************)
(* SpecFresh: scheduling alone.  Freshly built clusters (no usage, nothing *)
(* running, every pod pending) and nothing but scheduling passes.          *)
(***************************************************************************)
InitFresh ==
    /\ nodeList = <<"n2", "n10">>
    /\ \E cpu10 \in {1, 2}, cordoned10 \in BOOLEAN :
          nodes = ( "n10" :> [NewNode(cpu10, 2, <<>>) EXCEPT !.cordoned = cordoned10]
                 @@ "n2"  :> NewNode(3, 3, <<>>) )
    /\ podList = <<"p2", "p10", "p1">>
    /\ \E mem10 \in {1, 3}, cpu2 \in {-1, 0, 1, 2}, mem2 \in {0, 1} :
          pods = ( "p1"  :> NewPod(2, 1, 3, 3, "pending")
                @@ "p10" :> NewPod(2, mem10, 3, 3, "pending")
                @@ "p2"  :> NewPod(cpu2, mem2, 3, 3, "pending") )
    /\ policies = ( "np1" :> NewNetworkPolicy(<<>>, FALSE) )
    /\ eventSchedule = EventSchedule
    /\ hpa = NewHPA(50, 1, 3, 5)
    /\ recorded = <<>>
    /\ last = [op |-> "init"]
    /\ calls = 0

NextFresh == CallPass /\ ScheduleAllPending

SpecFresh == InitFresh /\ [][NextFresh]_vars

(***************************************************************************)
(* Properties                                                              *)
(***************************************************************************)
\* Every node's usage is at most its allocatable amount, for both resources.
CapacityBound ==
    \A n \in DOMAIN nodes :
        /\ nodes[n].current_cpu_usage <= nodes[n].allocatable_cpu
        /\ nodes[n].current_mem_usage <= nodes[n].allocatable_mem

\* The call l ran a burst_traffic or an oom_storm event.
StormCall(l) ==
    /\ l.op = "execute_events_for_tick"
    /\ \E i \in DOMAIN l.executed_events :
          Get(l.executed_events[i].event, "type", "") \in {"burst_traffic", "oom_storm"}

\* C1 as stated: after any mutation of the core, burst_traffic and oom_storm
\* included, every node has current usage <= allocatable for CPU and memory.
C1_Original == CapacityBound

\* C1 amended: every call other than a tick running a burst_traffic or oom_storm
\* event keeps current usage <= allocatable on every node (placements by the
\* scheduler, Node.assign_pod, Node.remove_pod of non-negative amounts, and the
\* other five chaos events); the two storm events add their amount to the node
\* with no cap.
C1_BoundKeptExceptByStorms ==
    [][ (CapacityBound /\ ~StormCall(last')) => CapacityBound' ]_vars

\* A scheduling pass has filled a node exactly to its allocatable CPU.
C1_Witness ==
    /\ last.op = "schedule_all_pending"
    /\ last.result.scheduled_count >= 1
    /\ \E n \in DOMAIN nodes :
          /\ nodes[n].pods_running # <<>>
          /\ nodes[n].current_cpu_usage = nodes[n].allocatable_cpu
    /\ CapacityBound

\* Every node's usage lies between zero and its allocatable amount.
UsageInBounds ==
    \A n \in DOMAIN nodes :
        /\ 0 <= nodes[n].current_cpu_usage
        /\ nodes[n].current_cpu_usage <= nodes[n].allocatable_cpu
        /\ 0 <= nodes[n].current_mem_usage
        /\ nodes[n].current_mem_usage <= nodes[n].allocatable_mem

\* C2 as stated: from zero usage, after any sequence of assign and remove calls
\* with any pod ids and any amounts, 0 <= usage <= allocatable on both resources.
C2_Original == UsageInBounds

\* C2 amended: an assign or remove call whose amounts are both non-negative keeps
\* 0 <= usage <= allocatable on both resources, whatever the pod id (a negative
\* amount is accepted by the code and can drive usage below zero or above
\* allocatable).
C2_NonNegativeAmountsKeepBounds ==
    [][ ( /\ UsageInBounds
          /\ last'.op \in {"assign_pod", "remove_pod", "assign_pod_to_node"}
          /\ last'.cpu_request >= 0
          /\ last'.mem_request >= 0 ) => UsageInBounds' ]_vars

\* A release of more than the node holds, of a pod id the node does not run,
\* has left the usage at zero.
C2_Witness ==
    /\ last.op = "remove_pod"
    /\ last.cpu_request > 0 /\ last.mem_request > 0
    /\ last.pod_id \notin Range(nodes[last.node_id].pods_running)
    /\ nodes[last.node_id].current_cpu_usage = 0
    /\ nodes[last.node_id].current_mem_usage = 0
    /\ calls >= 2

\* s has gained no element going to t.
NoGrowth(s, t) == Len(t) <= Len(s)

\* C3: a cordoned node never receives a placement: select_node never returns a
\* cordoned node, no call grows the running list of a cordoned node (the scheduler's
\* pass, assign_pod_to_node and Node.assign_pod all reject it), and no call clears
\* the cordoned flag.
C3_CordonedNeverGains ==
    [][ /\ \A n \in DOMAIN nodes :
              nodes[n].cordoned =>
                  /\ nodes'[n].cordoned
                  /\ NoGrowth(nodes[n].pods_running, nodes'[n].pods_running)
        /\ \A p \in DOMAIN pods :
              LET r == select_node(nodes', nodeList', pods'[p]) IN
              r # None => ~nodes'[r].cordoned
      ]_vars

\* A pass has placed a pod elsewhere while a cordoned node with room for every
\* pod stood empty.
C3_Witness ==
    /\ last.op = "schedule_all_pending"
    /\ last.result.scheduled_count >= 1
    /\ \E n \in DOMAIN nodes :
          /\ nodes[n].cordoned
          /\ nodes[n].pods_running = <<>>
          /\ \A p \in DOMAIN pods :
                /\ available_cpu(nodes[n]) >= pods[p].cpu_request
                /\ available_mem(nodes[n]) >= pods[p].mem_request

\* Every order a list of distinct ids can be given in.
Perms(s) ==
    {q \in [1..Len(s) -> Range(s)] : \A x \in Range(s) : \E i \in 1..Len(s) : q[i] = x}

\* The nodes passing the four checks for a pod, stated on the fields.
Fitting(ns, pod) ==
    {n \in DOMAIN ns :
        /\ ~ns[n].cordoned
        /\ ns[n].allocatable_cpu - ns[n].current_cpu_usage >= pod.cpu_request
        /\ ns[n].allocatable_mem - ns[n].current_mem_usage >= pod.mem_request
        /\ \A i \in DOMAIN ns[n].taints :
              \/ "effect" \notin DOMAIN ns[n].taints[i]
              \/ ns[n].taints[i].effect \notin {"NoSchedule", "NoExecute"}}

\* The id that precedes every other id of a non-empty set.
LeastId(S) == CHOOSE n \in S : \A m \in S \ {n} : StrLess(n, m)

\* What select_node is to return for a pod.
ExpectedNode(ns, pod) ==
    IF Fitting(ns, pod) = {} THEN None ELSE LeastId(Fitting(ns, pod))

\* select_node agrees with ExpectedNode for every pod and every order of the list.
SelectNodeAsExpected(ns, nl, ps) ==
    \A p \in DOMAIN ps, q \in Perms(nl) :
        LET r == select_node(ns, q, ps[p]) IN
        /\ r = ExpectedNode(ns, ps[p])
        /\ {"a", "b"} \subseteq Fitting(ns, ps[p]) => r = "a"
        /\ {"n10", "n2"} \subseteq Fitting(ns, ps[p]) => r = "n10"
        /\ r # None =>
              \A i \in DOMAIN ns[r].taints :
                  Get(ns[r].taints[i], "effect", "") # "NoExecute"

\* C4: select_node returns the node of smallest node_id (string order) among those
\* not cordoned, with enough free CPU and memory and no NoSchedule / NoExecute
\* taint, and None exactly when there is none, whatever the order of the node
\* list; of fitting "a" and "b" it returns "a"; a NoExecute node is never
\* returned; the call changes no node and no pod.
C4_SelectNodeLeastFitting ==
    [][ /\ SelectNodeAsExpected(nodes', nodeList', pods')
        /\ last'.op = "select_node" =>
              /\ last'.result = ExpectedNode(nodes, pods[last'.pod_id])
              /\ UNCHANGED <<nodeList, nodes, podList, pods, policies, hpa, recorded, eventSchedule>>
      ]_vars

\* select_node returned "n10" although "n2", listed first, also fits the pod.
C4_Witness ==
    /\ last.op = "select_node"
    /\ last.result = "n10"
    /\ nodeList = <<"n2", "n10">>
    /\ "n2" \in Fitting(nodes, pods[last.pod_id])

\* C5: schedule_all_pending gives the same assignments, the same node usage and
\* the same unschedulable_pods list, in the same order, whatever order the nodes
\* and the pods of a value-identical state are listed in.
C5_PassIndependentOfListOrder ==
    \A nl \in Perms(nodeList), pl \in Perms(podList) :
        schedule_all_pending(Cluster, nl, pl)
            = schedule_all_pending(Cluster, nodeList, podList)

\* A pass over lists given out of order placed two pods and left one unschedulable.
C5_Witness ==
    /\ last.op = "schedule_all_pending"
    /\ nodeList = <<"n2", "n10">>
    /\ podList = <<"p2", "p10", "p1">>
    /\ last.result.scheduled_count >= 2
    /\ last.result.unschedulable_count >= 1

\* The ids of s are in strictly ascending order.
Ascending(s) == \A i, j \in DOMAIN s : i < j => StrLess(s[i], s[j])

\* C6: a pass handles exactly the pods pending at its start, in ascending pod_id
\* order: the unschedulable ones are listed in ascending order and stay pending
\* with no node, the others end running (appended to their node's list in
\* ascending order), the counts add up, and pods that were not pending are
\* untouched.
C6_PassOverPendingPods ==
    [][ last'.op = "schedule_all_pending" =>
          LET P == {p \in DOMAIN pods : pods[p].phase = "pending"}
              U == last'.result.unschedulable_pods
          IN  /\ ~last'.raised
              /\ last'.result.scheduled_count + last'.result.unschedulable_count
                    = Cardinality(P)
              /\ last'.result.unschedulable_count = Len(U)
              /\ Range(U) \subseteq P
              /\ Ascending(U)
              /\ \A p \in Range(U) :
                    /\ pods'[p] = pods[p]
                    /\ pods'[p].phase = "pending" /\ pods'[p].assigned_node = None
              /\ \A p \in P \ Range(U) :
                    /\ pods'[p].phase = "running"
                    /\ pods'[p].assigned_node \in DOMAIN nodes
              /\ \A p \in DOMAIN pods \ P : pods'[p] = pods[p]
              /\ P # {} =>
                    (LeastId(P) \in Range(U) <=> Fitting(nodes, pods[LeastId(P)]) = {})
              /\ \A n \in DOMAIN nodes :
                    LET old == nodes[n].pods_running
                        new == nodes'[n].pods_running
                        gained == SubSeq(new, Len(old) + 1, Len(new))
                    IN  /\ Len(new) >= Len(old)
                        /\ SubSeq(new, 1, Len(old)) = old
                        /\ Ascending(gained)
                        /\ Range(gained) =
                              {p \in P \ Range(U) : pods'[p].assigned_node = n}
      ]_vars

\* A pass placed a pod and reported two unschedulable pods.
C6_Witness ==
    /\ last.op = "schedule_all_pending"
    /\ last.result.scheduled_count >= 1
    /\ last.result.unschedulable_count >= 2

\* C7: assign_pod_to_node raises and changes nothing when the node cannot fit the
\* pod; otherwise the pod becomes running on the node with usage equal to its
\* requests, the node's list gains the pod id and its usage grows by the
\* requests, all in the one call.
C7_AssignAllOrNothing ==
    [][ last'.op = "assign_pod_to_node" =>
          LET p == last'.pod_id
              n == last'.node_id
          IN  IF ~can_fit_pod(nodes[n], pods[p].cpu_request, pods[p].mem_request)
              THEN /\ last'.raised
                   /\ nodes' = nodes
                   /\ pods' = pods
              ELSE /\ ~last'.raised
                   /\ pods' = [pods EXCEPT ![p] =
                         [@ EXCEPT !.phase = "running",
                                   !.assigned_node = n,
                                   !.simulated_cpu_usage = pods[p].cpu_request,
                                   !.simulated_mem_usage = pods[p].mem_request]]
                   /\ nodes' = [nodes EXCEPT ![n] =
                         [@ EXCEPT !.pods_running = nodes[n].pods_running \o <<p>>,
                                   !.current_cpu_usage =
                                       nodes[n].current_cpu_usage + pods[p].cpu_request,
                                   !.current_mem_usage =
                                       nodes[n].current_mem_usage + pods[p].mem_request]]
      ]_vars

\* An assignment was refused for lack of capacity on a node that is not cordoned
\* and already runs a pod.
C7_Witness ==
    /\ last.op = "assign_pod_to_node"
    /\ last.raised
    /\ ~nodes[last.node_id].cordoned
    /\ nodes[last.node_id].pods_running # <<>>

\* A running pod has a node and a pending pod has none.
PhaseMatchesNode(pod) ==
    /\ pod.phase = "running" => pod.assigned_node # None
    /\ pod.phase = "pending" => pod.assigned_node = None

\* C8 as stated: in every reachable state, for pods built by the constructor with
\* any permitted phase, running implies an assigned node and pending implies none.
C8_Original == \A p \in DOMAIN pods : PhaseMatchesNode(pods[p])

\* C8 amended: the two implications hold in every reachable state for every pod
\* the constructor built with a phase other than running (the constructor
\* leaves assigned_node unset whatever phase it is given).
C8_HoldsUnlessBuiltRunning ==
    \A p \in {"p1", "p2"} :
        pods[p].phase # "running" => [](PhaseMatchesNode(pods[p]))

\* A pod placed by a scheduling pass is running on a node while the other pod,
\* crashed before it was placed, has none.
C8_Witness ==
    /\ last.op = "schedule_all_pending"
    /\ \E p, q \in DOMAIN pods :
          /\ pods[p].phase = "running" /\ pods[p].assigned_node \in DOMAIN nodes
          /\ pods[q].phase = "crash_loop" /\ pods[q].assigned_node = None
          /\ pods[q].restart_count >= 1

\* C9 as stated: once a pod is in crash_loop no operation of the core, direct
\* assign_pod_to_node and start_running calls included, changes its phase.
C9_Original ==
    [][ \A p \in DOMAIN pods :
            pods[p].phase = "crash_loop" => pods'[p].phase = "crash_loop" ]_vars

\* C9 amended: once a pod is in crash_loop, schedule_all_pending, select_node,
\* every chaos event and every call on another pod leave it in crash_loop; only
\* assign_pod_to_node or Pod.start_running called on that pod itself changes its
\* phase (to running).
C9_CrashLoopKeptExceptByDirectPlacement ==
    [][ \A p \in DOMAIN pods :
            ( /\ pods[p].phase = "crash_loop"
              /\ ~( /\ last'.op \in {"assign_pod_to_node", "start_running"}
                    /\ last'.pod_id = p ) )
            => pods'[p].phase = "crash_loop" ]_vars

\* A scheduling pass ran over a pod that had crashed and left it in crash_loop
\* while it placed the other pod.
C9_Witness ==
    /\ last.op = "schedule_all_pending"
    /\ last.result.scheduled_count >= 1
    /\ \E p \in DOMAIN pods :
          /\ pods[p].phase = "crash_loop"
          /\ pods[p].restart_count >= 1
          /\ pods[p].assigned_node = None


\* How many crash transitions of pod p one executed event reports: 1 for an
\* executed pod_crash or probe_failure of p, and for an oom_storm one for each
\* application to p whose resulting memory is above the limit.
CrashesInEvent(p, x) ==
    LET type == Get(x.event, "type", "") IN
    IF type \in {"pod_crash", "probe_failure"}
    THEN IF x.result.status = "executed" /\ x.event.pod_id = p THEN 1 ELSE 0
    ELSE IF type = "oom_storm"
    THEN Cardinality({i \in DOMAIN x.result.affected_pods :
              /\ x.result.affected_pods[i].pod_id = p
              /\ x.result.affected_pods[i].new_mem_usage
                     > x.result.affected_pods[i].limit})
    ELSE 0

\* How many crash transitions of pod p the call l made.
CrashesInCall(p, l) ==
    IF l.op = "crash" THEN (IF l.pod_id = p THEN 1 ELSE 0)
    ELSE IF l.op = "execute_events_for_tick"
    THEN SumSeq([i \in DOMAIN l.executed_events |->
                    CrashesInEvent(p, l.executed_events[i])])
    ELSE 0

\* How often id x occurs in the list s.
Occurrences(s, x) == Cardinality({i \in DOMAIN s : s[i] = x})

\* C10: restart_count never decreases and grows by exactly one per crash
\* transition: each Pod.crash call, each executed pod_crash and probe_failure
\* event, and each oom_storm application that leaves the pod's memory above its
\* limit (counted from the memory before the event: the k-th application to a pod
\* leaves it at old + k * amount); every other operation leaves it unchanged.
C10_RestartCountCountsCrashes ==
    [][ \A p \in DOMAIN pods :
          /\ pods'[p].restart_count >= pods[p].restart_count
          /\ pods'[p].restart_count
                = pods[p].restart_count + CrashesInCall(p, last')
          /\ ( /\ last'.op = "execute_events_for_tick"
               /\ Len(last'.executed_events) = 1
               /\ Get(last'.executed_events[1].event, "type", "") = "oom_storm" )
             => LET e == last'.executed_events[1].event IN
                pods'[p].restart_count - pods[p].restart_count
                   = Cardinality({k \in 1..Occurrences(e.pod_ids, p) :
                        pods[p].simulated_mem_usage + k * e.memory_increase
                            > pods[p].mem_limit})
          /\ ( /\ last'.op = "execute_events_for_tick"
               /\ \A i \in DOMAIN last'.executed_events :
                     Get(last'.executed_events[i].event, "type", "")
                         \notin {"pod_crash", "probe_failure", "oom_storm"} )
             => pods'[p].restart_count = pods[p].restart_count
      ]_vars

\* One oom_storm applied twice to a placed pod: the first application stayed
\* within the limit and the second crossed it, for one restart.
C10_Witness ==
    /\ last.op = "execute_events_for_tick"
    /\ Len(last.executed_events) = 1
    /\ last.executed_events[1].event.type = "oom_storm"
    /\ LET a == last.executed_events[1].result.affected_pods IN
       /\ Len(a) = 2
       /\ ~a[1].crashed /\ a[1].new_mem_usage = a[1].limit
       /\ a[2].crashed /\ a[2].restart_count = 1
    /\ pods["p1"].restart_count = 1
    /\ pods["p1"].assigned_node # None

(***************************************************************************)
(* C11..C13: the HPA                                                       *)
(***************************************************************************)
\* C11: compute_desired_replicas(current) returns a value in
\* [min_replicas, max_replicas] for every utilization history, every target
\* utilization and every current_replicas.  The cold-start return is not clamped:
\* an HPA with range [1, 2] and an empty window returns 5 for current 5.
C11_ResultInRange ==
    [][ last'.op = "compute_desired_replicas"
        => /\ ~last'.raised
           /\ hpa.min_replicas <= last'.result
           /\ last'.result <= hpa.max_replicas ]_vars

LastN(s, n) == SubSeq(s, Len(s) - n + 1, Len(s))

\* C13: after any sequence of record_utilization calls the window is no longer
\* than the metric_window_size given at construction, and it holds the most recent
\* samples in arrival order.
C13_WindowHoldsMostRecent ==
    /\ Len(hpa.metric_window) <= hpa.metric_window_size
    /\ hpa.metric_window
         = LastN(recorded, Min(Len(recorded), hpa.metric_window_size))

\* Two samples were evicted from a window of two.
C13_Witness ==
    /\ hpa.metric_window_size = 2
    /\ Len(recorded) = 4
    /\ recorded[1] # recorded[3]
    /\ recorded[3] # recorded[4]
    /\ hpa.metric_window = <<recorded[3], recorded[4]>>


(***************************************************************************)
(* C14: NetworkPolicy.is_ingress_allowed                                   *)
(***************************************************************************)
\* The source selector of an ingress rule; a rule that names none selects on no key.
SelectorOf(rule) ==
    IF "from_selector" \in DOMAIN rule THEN rule.from_selector ELSE <<>>

\* Every key of the rule's selector is carried by the labels with an equal value.
RuleMatches(rule, labels) ==
    \A k \in DOMAIN SelectorOf(rule) :
        /\ k \in DOMAIN labels
        /\ labels[k] = SelectorOf(rule)[k]

\* C14: is_ingress_allowed(source_labels) returns true for any labels when the
\* policy is not enforced; when it is enforced it returns true if and only if some
\* ingress rule's selector has every key present in the labels with an equal value
\* (a missing key fails the rule), so an enforced policy with no rule denies every
\* source.  The call changes nothing.
C14_IngressAllowedIffRuleMatches ==
    [][ last'.op = "is_ingress_allowed"
        => LET policy == policies[last'.policy_id]
               labels == last'.source_labels
           IN  /\ policies' = policies
               /\ ~policy.enforced => last'.result = TRUE
               /\ policy.enforced =>
                    ( last'.result = TRUE
                        <=> \E i \in DOMAIN policy.allowed_ingress :
                                RuleMatches(policy.allowed_ingress[i], labels) )
               /\ policy.enforced /\ policy.allowed_ingress = <<>>
                    => last'.result = FALSE ]_vars

\* An enforced policy denied a source that carries one key of a two-key rule with
\* the right value and lacks the other.
C14_Witness ==
    /\ last.op = "is_ingress_allowed"
    /\ policies[last.policy_id].enforced
    /\ policies[last.policy_id].allowed_ingress
         = << [from_selector |-> ("app" :> "web" @@ "tier" :> "fe")] >>
    /\ last.source_labels = ("app" :> "web")
    /\ last.result = FALSE

(***************************************************************************)
(* C15..C17: execute_events_for_tick and the dispatcher                    *)
(***************************************************************************)
\* The entries of a schedule whose tick field equals t, in schedule order.
DueAt(schedule, t) ==
    SelectSeq(schedule, LAMBDA e : "tick" \in DOMAIN e /\ e.tick = t)

RECURSIVE Replay(_, _, _, _)
\* The events dispatched one after the other, each once, from world w: the world
\* reached and the result of each.
Replay(w, nl, pl, events) ==
    IF events = <<>> THEN [w |-> w, results |-> <<>>]
    ELSE LET d    == dispatch_event(w, nl, pl, Head(events))
             rest == Replay(d.w, nl, pl, Tail(events))
         IN  [w |-> rest.w, results |-> <<d.result>> \o rest.results]

\* C15: execute_events_for_tick(t) dispatches exactly the schedule entries whose
\* tick equals t, each once and in schedule order, and returns one
\* {event, result} record per such entry in the same order; entries of another
\* tick or with no tick are neither dispatched nor reported, and the schedule is
\* left unchanged.
C15_ExecutesExactlyDueEvents ==
    [][ last'.op = "execute_events_for_tick"
        => LET due      == DueAt(eventSchedule, last'.tick)
               executed == last'.executed_events
               replayed == Replay(World, nodeList, podList, due)
           IN  /\ Len(executed) = Len(due)
               /\ \A i \in DOMAIN executed :
                      /\ DOMAIN executed[i] = {"event", "result"}
                      /\ executed[i].event = due[i]
                      /\ executed[i].result = replayed.results[i]
               /\ World' = replayed.w
               /\ eventSchedule' = eventSchedule ]_vars

\* A tick with four due entries, a fifth entry with no tick standing between them
\* in the schedule, was executed.
C15_Witness ==
    /\ last.op = "execute_events_for_tick"
    /\ Len(last.executed_events) = 4
    /\ Len(eventSchedule) > 4
    /\ \E i, j, k \in DOMAIN eventSchedule :
          /\ i < j /\ j < k
          /\ eventSchedule[i] = last.executed_events[3].event
          /\ "tick" \notin DOMAIN eventSchedule[j]
          /\ eventSchedule[k] = last.executed_events[4].event
    /\ last.executed_events[4].result.status = "executed"

\* The event's type is none of the seven the dispatcher has a handler for.
UnknownType(event) ==
    "type" \notin DOMAIN event \/ event.type \notin EventTypes

\* C16: dispatching an event whose type is not one of the seven supported types
\* (or that has no type) returns status failed and changes no node, pod or
\* policy: the tick leaves the world as the due events of a supported type alone
\* would have.
C16_UnknownTypeFailsClosed ==
    [][ last'.op = "execute_events_for_tick"
        => LET due       == DueAt(eventSchedule, last'.tick)
               executed  == last'.executed_events
               supported == SelectSeq(due, LAMBDA e : ~UnknownType(e))
           IN  /\ \A i \in DOMAIN executed :
                      UnknownType(executed[i].event)
                          => executed[i].result.status = "failed"
               /\ World' = Replay(World, nodeList, podList, supported).w
               /\ (\A i \in DOMAIN due : UnknownType(due[i])) => World' = World ]_vars

\* A tick whose only due events were a teleport_pod and an event with no type.
C16_Witness ==
    /\ last.op = "execute_events_for_tick"
    /\ Len(last.executed_events) = 2
    /\ Get(last.executed_events[1].event, "type", "") = "teleport_pod"
    /\ "type" \notin DOMAIN last.executed_events[2].event
    /\ last.executed_events[1].result.status = "failed"
    /\ last.executed_events[2].result.status = "failed"
    /\ \E p \in DOMAIN pods : pods[p].phase = "running"

\* The event is of a single-target type and names no target, or one that is in
\* none of the live lists.
TargetAbsent(event) ==
    /\ "type" \in DOMAIN event
    /\ \/ /\ event.type \in {"pod_crash", "probe_failure"}
          /\ "pod_id" \in DOMAIN event => event.pod_id \notin Range(podList)
       \/ /\ event.type \in {"node_cordon", "node_drain"}
          /\ "node_id" \in DOMAIN event => event.node_id \notin Range(nodeList)
       \/ /\ event.type = "netpol_lockout"
          /\ "policy_id" \in DOMAIN event => event.policy_id \notin DOMAIN policies

\* C17: a pod_crash, probe_failure, node_cordon, node_drain or netpol_lockout
\* event whose target is absent from the live lists or not named returns status
\* failed and changes nothing, and the batch goes on: every due event is reported,
\* and the tick leaves the world as the due events that have their target alone
\* would have.
C17_AbsentTargetFailsWithoutAborting ==
    [][ last'.op = "execute_events_for_tick"
        => LET due      == DueAt(eventSchedule, last'.tick)
               executed == last'.executed_events
               present  == SelectSeq(due, LAMBDA e : ~TargetAbsent(e))
           IN  /\ Len(executed) = Len(due)
               /\ \A i \in DOMAIN executed :
                      /\ executed[i].event = due[i]
                      /\ TargetAbsent(due[i]) => executed[i].result.status = "failed"
               /\ World' = Replay(World, nodeList, podList, present).w ]_vars

\* A node_drain naming no node failed and the pod_crash after it in the same tick
\* was executed.
C17_Witness ==
    /\ last.op = "execute_events_for_tick"
    /\ Len(last.executed_events) = 2
    /\ last.executed_events[1].event = [tick |-> 1, type |-> "node_drain"]
    /\ last.executed_events[1].result.status = "failed"
    /\ Get(last.executed_events[2].event, "type", "") = "pod_crash"
    /\ last.executed_events[2].result.status = "executed"
    /\ last.executed_events[2].event.pod_id = "p1"
    /\ pods["p1"].phase = "crash_loop"
    /\ \A n \in DOMAIN nodes : ~nodes[n].cordoned

(***************************************************************************)
(* C18: the end-to-end scenario                                            *)
(***************************************************************************)
\* The cluster as built: p1 alone and pending, both nodes empty and open.
FreshCluster ==
    /\ DOMAIN pods = {"p1"}
    /\ is_pending(pods["p1"])
    /\ \A n \in DOMAIN nodes :
          /\ ~nodes[n].cordoned
          /\ nodes[n].current_cpu_usage = 0
          /\ nodes[n].pods_running = <<>>

\* p1 runs on n1, n1 has been drained, and p2 has been added and is pending.
DrainedWithNewPod ==
    /\ pods["p1"].phase = "running"
    /\ pods["p1"].assigned_node = "n1"
    /\ nodes["n1"].cordoned
    /\ "p2" \in DOMAIN pods
    /\ is_pending(pods["p2"])

\* C18: on nodes n1 and n2 (4 CPU each) with pending p1 (2 CPU),
\* schedule_all_pending returns scheduled_count 1 and leaves p1 running on n1 with
\* n1.current_cpu_usage = 2; once n1 has been drained by execute_events_for_tick
\* and pending p2 (3 CPU) has been added, the next schedule_all_pending assigns p2
\* to n2 and p1 is still running on n1.
C18_EndToEndScenario ==
    [][ last'.op = "schedule_all_pending"
        => /\ FreshCluster
              => /\ last'.result.scheduled_count = 1
                 /\ pods'["p1"].phase = "running"
                 /\ pods'["p1"].assigned_node = "n1"
                 /\ nodes'["n1"].current_cpu_usage = 2
           /\ DrainedWithNewPod
              => /\ pods'["p2"].assigned_node = "n2"
                 /\ pods'["p2"].phase = "running"
                 /\ pods'["p1"].phase = "running"
                 /\ pods'["p1"].assigned_node = "n1" ]_vars

\* The end of the scenario: both passes made, the drain executed between them.
C18_Witness ==
    /\ last.op = "schedule_all_pending"
    /\ calls = 4
    /\ last.result.scheduled_count = 1
    /\ nodes["n1"].cordoned
    /\ nodes["n1"].pods_running = <<"p1">>
    /\ nodes["n1"].current_cpu_usage = 2
    /\ nodes["n2"].pods_running = <<"p2">>
    /\ nodes["n2"].current_cpu_usage = 3
    /\ pods["p1"].phase = "running"
    /\ pods["p2"].assigned_node = "n2"

(***************************************************************************)
(* C19, C20: burst_traffic and oom_storm                                   *)
(***************************************************************************)
\* The last call executed exactly one event, of the given type.
ExecutedOne(l, type) ==
    /\ l.op = "execute_events_for_tick"
    /\ Len(l.executed_events) = 1
    /\ Get(l.executed_events[1].event, "type", "") = type

\* How many of the listed ids name a pod of the live list.
Matched(ids) == Cardinality({i \in DOMAIN ids : ids[i] \in Range(podList)})

\* How many times the list names a pod assigned to node n.
HitsOnNode(ids, n) ==
    Cardinality({i \in DOMAIN ids : /\ ids[i] \in Range(podList)
                                    /\ pods[ids[i]].assigned_node = n})

RECURSIVE Burst(_, _, _, _)
\* CPU usage x after k bursts of amount a under the limit.
Burst(k, x, a, limit) ==
    IF k = 0 THEN x ELSE Burst(k - 1, Min(x + a, limit), a, limit)

\* C19: a burst_traffic of amount a sets the simulated_cpu_usage of each listed
\* pod that exists to min(old + a, cpu_limit), once per time the pod is listed,
\* and adds the full amount a to the current_cpu_usage of the pod's assigned node,
\* uncapped; phase, restart_count and everything else stay as they were; ids that
\* match no pod are skipped; the result has status executed and affected_count
\* equal to the number of listed ids that matched a pod.
C19_BurstTraffic ==
    [][ ExecutedOne(last', "burst_traffic")
        => LET event  == last'.executed_events[1].event
               result == last'.executed_events[1].result
               ids    == Get(event, "pod_ids", <<>>)
               a      == Get(event, "cpu_increase", 0)
           IN  /\ result.status = "executed"
               /\ result.affected_count = Matched(ids)
               /\ \A p \in DOMAIN pods :
                      pods'[p] = [pods[p] EXCEPT !.simulated_cpu_usage =
                                     Burst(Occurrences(ids, p), @, a, pods[p].cpu_limit)]
               /\ \A n \in DOMAIN nodes :
                      nodes'[n] = [nodes[n] EXCEPT !.current_cpu_usage =
                                      @ + a * HitsOnNode(ids, n)]
               /\ policies' = policies ]_vars

\* A burst of 2 over p1 and a pod that does not exist: p1, running on n10 with
\* usage 1 under a limit of 2, is clamped to 2 while n10 gets the full 2 and goes
\* over its allocatable CPU.
C19_Witness ==
    /\ ExecutedOne(last, "burst_traffic")
    /\ Get(last.executed_events[1].event, "cpu_increase", 0) = 2
    /\ last.executed_events[1].result.affected_count = 1
    /\ last.executed_events[1].result.affected_pods[1]
         = [pod_id |-> "p1", old_cpu_usage |-> 1, new_cpu_usage |-> 2, limit |-> 2]
    /\ "ghost" \in Range(Get(last.executed_events[1].event, "pod_ids", <<>>))
    /\ pods["p1"].phase = "running"
    /\ pods["p1"].assigned_node = "n10"
    /\ pods["p1"].simulated_cpu_usage = 2
    /\ nodes["n10"].current_cpu_usage = 3
    /\ nodes["n10"].allocatable_cpu = 2

\* How many of the first k additions of m to memory usage x end above the limit.
Exceedings(k, x, m, limit) == Cardinality({j \in 1..k : x + j * m > limit})

\* C20: an oom_storm of amount m adds m to the simulated_mem_usage of each listed
\* pod that exists, unclamped, once per time the pod is listed; the pod goes to
\* crash_loop with restart_count + 1 if and only if the new usage is strictly
\* above mem_limit; the assigned node's current_mem_usage grows by m whether or
\* not the pod crashed.
C20_OomStorm ==
    [][ ExecutedOne(last', "oom_storm")
        => LET event  == last'.executed_events[1].event
               result == last'.executed_events[1].result
               ids    == Get(event, "pod_ids", <<>>)
               m      == Get(event, "memory_increase", 0)
           IN  /\ result.status = "executed"
               /\ result.affected_count = Matched(ids)
               /\ \A p \in DOMAIN pods :
                      LET k       == Occurrences(ids, p)
                          crashes == Exceedings(k, pods[p].simulated_mem_usage, m,
                                                pods[p].mem_limit)
                      IN  pods'[p] = [pods[p] EXCEPT
                                        !.simulated_mem_usage = @ + k * m,
                                        !.restart_count = @ + crashes,
                                        !.phase = IF crashes > 0 THEN "crash_loop"
                                                  ELSE @]
               /\ \A n \in DOMAIN nodes :
                      nodes'[n] = [nodes[n] EXCEPT !.current_mem_usage =
                                      @ + m * HitsOnNode(ids, n)]
               /\ policies' = policies ]_vars

\* The example of the claim: p1 with mem_limit 100 and usage 90 received an
\* oom_storm of 20 and ended with usage 110, in crash_loop, restarted once, and
\* its node n10 got the 20 as well.
C20_Witness ==
    /\ ExecutedOne(last, "oom_storm")
    /\ last.executed_events[1].event
         = [tick |-> 1, type |-> "oom_storm", pod_ids |-> <<"p1">>,
            memory_increase |-> 20]
    /\ last.executed_events[1].result.affected_pods
         = << [pod_id |-> "p1", old_mem_usage |-> 90, new_mem_usage |-> 110,
               limit |-> 100, crashed |-> TRUE, restart_count |-> 1] >>
    /\ pods["p1"].simulated_mem_usage = 110
    /\ pods["p1"].phase = "crash_loop"
    /\ pods["p1"].restart_count = 1
    /\ pods["p1"].assigned_node = "n10"
    /\ nodes["n10"].current_mem_usage = 110

(***************************************************************************)
(* C21: running a tick twice                                               *)
(***************************************************************************)
\* The events of a {event, result} list.
EventsOf(executed) == [i \in DOMAIN executed |-> executed[i].event]

\* How many of the events are a pod_crash or probe_failure of pod p.
CrashEventsOn(events, p) ==
    Cardinality({i \in DOMAIN events :
        /\ Get(events[i], "type", "") \in {"pod_crash", "probe_failure"}
        /\ Get(events[i], "pod_id", None) = p})

\* What the burst_traffic events among the events add to node n in one execution.
BurstOnNode(events, n) ==
    SumSeq([i \in DOMAIN events |->
              IF Get(events[i], "type", "") = "burst_traffic"
              THEN Get(events[i], "cpu_increase", 0)
                     * HitsOnNode(Get(events[i], "pod_ids", <<>>), n)
              ELSE 0])

\* C21: execute_events_for_tick(t) called twice with the same t dispatches the
\* same events both times and applies their effects twice: restart_count grows by
\* two per pod_crash (or probe_failure) of the pod, a node's CPU usage by twice
\* the amount of a burst_traffic on its pods, while a tick of node_cordon,
\* node_drain and netpol_lockout events alone leaves after the second execution
\* the state the first one left.
C21_RerunAppliesTwice ==
    [][ (last'.op = "execute_events_for_tick" /\ "previous" \in DOMAIN last')
        => LET due    == DueAt(eventSchedule, last'.tick)
               first  == last'.between
               second == World'
               types  == {Get(due[i], "type", "") : i \in DOMAIN due}
           IN  /\ EventsOf(last'.previous) = due
               /\ EventsOf(last'.executed_events) = due
               /\ first = Replay(World, nodeList, podList, due).w
               /\ second = Replay(first, nodeList, podList, due).w
               /\ "oom_storm" \notin types
                    => \A p \in DOMAIN pods :
                          second.pods[p].restart_count
                             = pods[p].restart_count + 2 * CrashEventsOn(due, p)
               /\ \A n \in DOMAIN nodes :
                      second.nodes[n].current_cpu_usage
                         = nodes[n].current_cpu_usage + 2 * BurstOnNode(due, n)
               /\ types \subseteq {"node_cordon", "node_drain", "netpol_lockout"}
                    => second = first ]_vars

\* The burst of tick 3 (amount 1 over p1 and p2) was run twice on placed pods: each
\* node got the amount twice, and p1's own usage stopped at its limit.
C21_Witness ==
    /\ last.op = "execute_events_for_tick"
    /\ "previous" \in DOMAIN last
    /\ last.tick = 3
    /\ last.between.nodes["n10"].current_cpu_usage = 2
    /\ nodes["n10"].current_cpu_usage = 3
    /\ nodes["n2"].current_cpu_usage = 4
    /\ pods["p1"].simulated_cpu_usage = 2
    /\ last.previous[1].result.affected_count = 2
    /\ last.executed_events[1].result.affected_count = 2

(***************************************************************************)
(* C22: node_drain                                                         *)
(***************************************************************************)
\* C22: a node_drain on an existing node sets cordoned to true and changes nothing
\* else -- the node's running list and usage, every pod (phase, assigned_node,
\* usage, restart_count), every other node and every policy stay as they were --
\* and the state it leaves is the one a node_cordon on the same node leaves.
C22_DrainOnlyCordons ==
    [][ ( /\ ExecutedOne(last', "node_drain")
          /\ last'.executed_events[1].result.status = "executed" )
        => LET event  == last'.executed_events[1].event
               cordon == [event EXCEPT !.type = "node_cordon"]
           IN  /\ event.node_id \in DOMAIN nodes
               /\ nodes' = [nodes EXCEPT ![event.node_id].cordoned = TRUE]
               /\ pods' = pods
               /\ policies' = policies
               /\ World' = dispatch_event(World, nodeList, podList, cordon).w ]_vars

\* n1 was drained while p1 was running on it: p1 still runs there and n1 still
\* counts its 2 CPU.
C22_Witness ==
    /\ ExecutedOne(last, "node_drain")
    /\ last.executed_events[1].result.status = "executed"
    /\ last.executed_events[1].event.node_id = "n1"
    /\ nodes["n1"].cordoned
    /\ nodes["n1"].pods_running = <<"p1">>
    /\ nodes["n1"].current_cpu_usage = 2
    /\ pods["p1"].phase = "running"
    /\ pods["p1"].assigned_node = "n1"

(***************************************************************************)
(* C23: Node.remove_pod                                                    *)
(***************************************************************************)
\* C23: remove_pod, of amounts that are not negative on a node whose usage is
\* within 0..allocatable, never leaves CPU or memory usage below zero, and given a
\* pod id that is not in the node's running list it signals no error, leaves the
\* running list as it was and leaves the node's usage as it was.  The code subtracts the
\* amounts whether or not the id was found: releasing (1, 1) for an unknown id on
\* a node at (1, 1) leaves it at (0, 0).
C23_RemoveClampsAndToleratesAbsent ==
    [][ ( /\ last'.op = "remove_pod"
          /\ UsageInBounds
          /\ last'.cpu_request >= 0
          /\ last'.mem_request >= 0 )
        => LET before == nodes[last'.node_id]
               after  == nodes'[last'.node_id]
           IN  /\ ~last'.raised
               /\ after.current_cpu_usage >= 0
               /\ after.current_mem_usage >= 0
               /\ last'.pod_id \notin Range(before.pods_running)
                    => /\ after.pods_running = before.pods_running
                       /\ after.current_cpu_usage = before.current_cpu_usage
                       /\ after.current_mem_usage = before.current_mem_usage ]_vars

(***************************************************************************)
(* C24: the re-validation inside a pass                                    *)
(***************************************************************************)
\* C24: within schedule_all_pending the capacity check of assign_pod_to_node never
\* fails: the node select_node returns for a pod satisfies can_fit_pod for it, so
\* from any state of nodes and pods, usage above allocatable included, a pass runs
\* to completion without signalling an error and accounts for every pending pod.
C24_PassNeverRaises ==
    [][ /\ last'.op = "schedule_all_pending"
           => /\ ~last'.raised
              /\ last'.result.scheduled_count + last'.result.unschedulable_count
                   = Len(PendingPods(pods, podList))
        /\ last'.op = "select_node" /\ last'.result # None
           => can_fit_pod(nodes[last'.result], pods[last'.pod_id].cpu_request,
                          pods[last'.pod_id].mem_request) ]_vars

\* A pass over a node whose usage is above its allocatable placed one pod on the
\* other node and found another unschedulable.
C24_Witness ==
    /\ last.op = "schedule_all_pending"
    /\ ~last.raised
    /\ last.result.scheduled_count >= 1
    /\ last.result.unschedulable_count >= 1
    /\ \E n \in DOMAIN nodes :
          /\ nodes[n].current_mem_usage > nodes[n].allocatable_mem
          /\ nodes[n].pods_running = <<"ghost">>

(***************************************************************************)
(* C25: placement bookkeeping                                              *)
(***************************************************************************)
\* The running list of node n holds no id twice.
NoDuplicates(n) ==
    \A i, j \in DOMAIN nodes[n].pods_running :
        i # j => nodes[n].pods_running[i] # nodes[n].pods_running[j]

\* C25: from pods all pending and empty running lists, after any interleaving of
\* passes and chaos events, a pod id is in node n's running list if and only if
\* the pod's assigned_node is n, no id is in the lists of two nodes, and no list
\* holds an id twice.
C25_PlacementBookkeeping ==
    /\ \A n \in DOMAIN nodes, p \in DOMAIN pods :
          p \in Range(nodes[n].pods_running) <=> pods[p].assigned_node = n
    /\ \A n \in DOMAIN nodes : Range(nodes[n].pods_running) \subseteq DOMAIN pods
    /\ \A n, m \in DOMAIN nodes :
          n # m => Range(nodes[n].pods_running) \cap Range(nodes[m].pods_running) = {}
    /\ \A n \in DOMAIN nodes : NoDuplicates(n)

\* A pass has run over a cluster in which a placed pod had crashed: the pod is
\* in crash_loop on its node, and the other pod runs on the other node.
C25_Witness ==
    /\ last.op = "schedule_all_pending"
    /\ pods["p1"].phase = "crash_loop"
    /\ pods["p1"].assigned_node = "n10"
    /\ nodes["n10"].pods_running = <<"p1">>
    /\ pods["p2"].assigned_node = "n2"
    /\ nodes["n2"].pods_running = <<"p2">>
    /\ calls >= 3

(***************************************************************************)
(* C26: resource accounting under scheduling alone                         *)
(***************************************************************************)
\* The CPU requests, and the memory requests, of the pods in a running list.
RequestedCpu(n) ==
    SumSeq([i \in DOMAIN nodes[n].pods_running |->
               pods[nodes[n].pods_running[i]].cpu_request])
RequestedMem(n) ==
    SumSeq([i \in DOMAIN nodes[n].pods_running |->
               pods[nodes[n].pods_running[i]].mem_request])

\* C26: from nodes with zero usage and pods all pending, after any number of
\* passes and no chaos event, each node's current_cpu_usage is the sum of
\* cpu_request, and its current_mem_usage the sum of mem_request, over the pods
\* in its running list.
C26_UsageIsSumOfRequests ==
    \A n \in DOMAIN nodes :
        /\ nodes[n].current_cpu_usage = RequestedCpu(n)
        /\ nodes[n].current_mem_usage = RequestedMem(n)

\* Two passes have run and the second placed one more pod, so that n2 runs three
\* pods and its usage is not zero.
C26_Witness ==
    /\ last.op = "schedule_all_pending"
    /\ calls = 2
    /\ last.result.scheduled_count = 1
    /\ Len(nodes["n2"].pods_running) = 3
    /\ nodes["n2"].current_cpu_usage > 0

(***************************************************************************)
(* C27: a pass reaches a fixpoint                                          *)
(***************************************************************************)
\* No pod requests a negative amount.
NonNegativeRequests ==
    \A p \in DOMAIN pods : pods[p].cpu_request >= 0 /\ pods[p].mem_request >= 0

\* C27: for pods with non-negative requests, a second schedule_all_pending with no
\* change to nodes or pods in between schedules nothing, changes no node and no
\* pod, and returns the unschedulable_pods list of the first.
C27_SecondPassIsFixpoint ==
    [][ ( /\ last.op = "schedule_all_pending"
          /\ last'.op = "schedule_all_pending"
          /\ NonNegativeRequests )
        => /\ ~last'.raised
           /\ last'.result.scheduled_count = 0
           /\ nodes' = nodes
           /\ pods' = pods
           /\ last'.result.unschedulable_pods = last.result.unschedulable_pods ]_vars

\* Two passes in a row: the first placed a pod and left another unschedulable, the
\* second placed nothing and reported the same pod again.
C27_Witness ==
    /\ calls = 2
    /\ last.op = "schedule_all_pending"
    /\ NonNegativeRequests
    /\ last.result.scheduled_count = 0
    /\ last.result.unschedulable_pods # <<>>
    /\ \E p \in DOMAIN pods : pods[p].phase = "running" /\ pods[p].assigned_node # None

(***************************************************************************)
(* C28: crashing a pod releases nothing                                    *)
(***************************************************************************)
\* The pods the step has added at the end of node n's running list.
NewlyPlaced(n) ==
    SubSeq(nodes'[n].pods_running, Len(nodes[n].pods_running) + 1,
           Len(nodes'[n].pods_running))

\* C28: a pod_crash, probe_failure or oom_storm-induced crash of a pod assigned to
\* node n leaves the pod's assigned_node equal to n, leaves n's running list as it
\* was, with the pod id in it, and does not decrease n's cpu or mem usage; a later
\* pass leaves the crash_loop pod where it is and adds to the node's usage only
\* the requests of the pods it places there, within what the node has left.
C28_CrashReleasesNothing ==
    [][ /\ last'.op = "execute_events_for_tick"
           => \A p \in DOMAIN pods :
                 ( /\ pods[p].assigned_node # None
                   /\ pods'[p].restart_count > pods[p].restart_count )
                 => LET n == pods[p].assigned_node IN
                    /\ pods'[p].phase = "crash_loop"
                    /\ pods'[p].assigned_node = n
                    /\ p \in Range(nodes'[n].pods_running)
                    /\ nodes'[n].pods_running = nodes[n].pods_running
                    /\ nodes'[n].current_cpu_usage >= nodes[n].current_cpu_usage
                    /\ nodes'[n].current_mem_usage >= nodes[n].current_mem_usage
        /\ last'.op = "schedule_all_pending"
           => \A p \in DOMAIN pods :
                 ( /\ pods[p].assigned_node # None
                   /\ pods[p].phase = "crash_loop" )
                 => LET n == pods[p].assigned_node
                        placed == NewlyPlaced(n)
                    IN
                    /\ pods'[p] = pods[p]
                    /\ p \in Range(nodes'[n].pods_running)
                    /\ nodes'[n].current_cpu_usage = nodes[n].current_cpu_usage
                         + SumSeq([i \in DOMAIN placed |-> pods[placed[i]].cpu_request])
                    /\ nodes'[n].current_mem_usage = nodes[n].current_mem_usage
                         + SumSeq([i \in DOMAIN placed |-> pods[placed[i]].mem_request])
                    /\ placed # <<>>
                         => /\ nodes'[n].current_cpu_usage <= nodes[n].allocatable_cpu
                            /\ nodes'[n].current_mem_usage <= nodes[n].allocatable_mem ]_vars

\* p1 crashed while holding one of n10's two CPUs, n2 is cordoned, and the pass
\* that followed found p2, which asks for two, unschedulable.
C28_Witness ==
    /\ last.op = "schedule_all_pending"
    /\ last.result.unschedulable_pods = <<"p2">>
    /\ pods["p1"].phase = "crash_loop"
    /\ pods["p1"].assigned_node = "n10"
    /\ nodes["n10"].pods_running = <<"p1">>
    /\ nodes["n10"].current_cpu_usage = 1
    /\ ~nodes["n10"].cordoned
    /\ pods["p2"].phase = "pending"

====
